---------------------------- MODULE Spec2Model ----------------------------
(***************************************************************************)
(* Model of the scrapar pipeline engine: the dependency resolver and the   *)
(* step runner (ScrapeRunnerImpl), the step log store (StepLogger) and the *)
(* command-line wiring that drives both (cli/index.ts).                    *)
(*                                                                         *)
(* A pipeline is the array handed to setSteps: a sequence of steps, each   *)
(* with an id and a `dependencies` array.  Step bodies and lifecycle hooks *)
(* are callbacks of the caller: the model invokes them and lets each       *)
(* return or throw.                                                        *)
(***************************************************************************)
EXTENDS Naturals, Integers, Sequences, FiniteSets, TLC

\* ------------------------------------------------------------------ bounds
\* Ids a pipeline's steps are drawn from, and one id that is never a step.
StepIds == {"A", "B", "C"}
MissingId == "X"
DepIds == StepIds \cup {MissingId}
\* The order in which a `dependencies` array of the model lists its ids.
IdOrder == <<"A", "B", "C", "X">>
\* Most declared dependencies (edges) in one pipeline.
MaxEdges == 3
\* Largest state.stepIndex handed to resume().
MaxIndex == 3
\* Most runner invocations of one command-line session (run, then resumes).
MaxInvocations == 2

NoStep == "-"
NoError == [kind |-> "none"]
Hooks == {"beforeStep", "afterStep", "onError"}

VARIABLES
    steps,           \* ScrapeRunnerImpl._steps: the supplied steps, in supply order
    lifecycle,       \* hooks of the lifecycle given by the caller (runner level)
    stepHooks,       \* hooks every step defines (step level)
    wiring,          \* "lib": the runner used directly; "cli": through cli/index.ts
    pc,              \* "idle", "exec", "returned", "rejected"
    entry,           \* "none", "run", "resume"
    orderedSteps,    \* run/resume: const orderedSteps (ids)
    startIndex,      \* run/resume: const startIndex
    i,               \* run/resume: the for loop's i
    at,              \* the call site the invocation stands at
    inflight,        \* calls started and not yet settled
    error,           \* the error the invocation is propagating
    completedSteps,  \* run/resume: const completedSteps
    failedSteps,     \* run/resume: const failedSteps
    result,          \* the RunResult the invocation returned
    rejection,       \* the error the invocation rejected with
    trace,           \* every call, return and throw of a callback, in order
    state,           \* the RunnerState handed to resume()
    startStepId,     \* options.startStepId of run(), --start-step of the resume command
    prior,           \* `aborted` as it was when the invocation started
    context,         \* run/resume: const context (its identity and its data)
    disk,            \* the log directory: file name -> persisted record
    clock,           \* the wall clock read by StepLogger.timestamp
    invocations,     \* runner invocations made so far
    aborted,         \* the last rejected invocation: position and cause
    lastOp,          \* the last StepLogger operation: its arguments, what it
                     \* returned and the log directory before it
    ctl,             \* LoopController options and the arguments of loopDelay
    loop,            \* loopDelay: adjustedLimit, startIndex, currentIndex,
                     \* intervalId and the controller's failures
    pending,         \* item callbacks started and not yet settled (indices)
    events,          \* every callback the controller called, in order
    writers          \* concurrent callers of one step log: where each stands in
                     \* its operation and the record it holds

runnerVars == <<pc, entry, orderedSteps, startIndex, i, at, inflight, error,
                completedSteps, failedSteps, result, rejection, trace, state,
                startStepId, prior,
               context>>
configVars == <<steps, lifecycle, stepHooks, wiring>>
storeVars == <<disk, clock>>
\* What the runner never touches: the log of store operations, the controller.
loopVars == <<ctl, loop, pending, events>>
sideVars == <<lastOp, loopVars, writers>>
vars == <<configVars, runnerVars, storeVars, invocations, aborted, sideVars>>

\* ------------------------------------------------------------ sequences
Range(s) == {s[k] : k \in 1..Len(s)}

IndexOf(s, x) ==
    IF \E k \in 1..Len(s) : s[k] = x
    THEN CHOOSE k \in 1..Len(s) : s[k] = x /\ \A j \in 1..(k - 1) : s[j] # x
    ELSE 0

RECURSIVE Concat(_)
Concat(ss) == IF ss = <<>> THEN <<>> ELSE Head(ss) \o Concat(Tail(ss))

Ids(ss) == [k \in 1..Len(ss) |-> ss[k].id]

\* --------------------------------------------------- resolveDependencies
\* The (step id, dependency id) pairs in the order the second `for` visits them.
DepPairs(ss) ==
    Concat([k \in 1..Len(ss) |->
              [j \in 1..Len(ss[k].dependencies) |->
                  [step |-> ss[k].id, dep |-> ss[k].dependencies[j]]]])

\* A resolver without the stepMap.has(depId) test (C7 rests on the test).
MissingPairsUnchecked(ss) == <<>>

\* stepMap.has(depId) fails: the dependencies that name no supplied step, the
\* first of them being the one the resolver throws for.
MissingPairs(ss) ==
    SelectSeq(DepPairs(ss), LAMBDA p : p.dep \notin Range(Ids(ss)))

\* graph: dependency id -> the ids of its dependents, in push order.
Graph(ss) ==
    [d \in Range(Ids(ss)) |->
        LET mine == SelectSeq(DepPairs(ss), LAMBDA p : p.dep = d)
        IN  [k \in 1..Len(mine) |-> mine[k].step]]

\* inDegree: step id -> number of declared dependencies.
InDegree(ss) ==
    [s \in Range(Ids(ss)) |->
        Len(SelectSeq(DepPairs(ss), LAMBDA p : p.step = s))]

\* An initial queue filled from the last supplied step to the first (C37
\* rests on the insertion order of inDegree.entries()).
InitialQueueReversed(ss) ==
    LET q == SelectSeq(Ids(ss), LAMBDA s : InDegree(ss)[s] = 0)
    IN  [k \in 1..Len(q) |-> q[Len(q) + 1 - k]]

\* The initial queue: inDegree.entries() in insertion order, degree 0.
InitialQueue(ss) ==
    SelectSeq(Ids(ss), LAMBDA s : InDegree(ss)[s] = 0)

\* An inner loop that queues a dependent at its first satisfied dependency
\* (C1 rests on the `currentDegree - 1 === 0` test).
RECURSIVE RelaxEager(_, _, _)
RelaxEager(dependents, inDeg, queue) ==
    IF dependents = <<>> THEN [inDegree |-> inDeg, queue |-> queue]
    ELSE LET d == Head(dependents)
             deg == inDeg[d] - 1
         IN  RelaxEager(Tail(dependents), [inDeg EXCEPT ![d] = deg],
                        Append(queue, d))

\* The inner `for (const dependentId of dependents)`: decrement, and queue the
\* dependent when its degree reaches zero.
RECURSIVE Relax(_, _, _)
Relax(dependents, inDeg, queue) ==
    IF dependents = <<>> THEN [inDegree |-> inDeg, queue |-> queue]
    ELSE LET d == Head(dependents)
             deg == inDeg[d] - 1
         IN  Relax(Tail(dependents), [inDeg EXCEPT ![d] = deg],
                   IF deg = 0 THEN Append(queue, d) ELSE queue)

\* The `while (queue.length > 0)` loop.  fuel bounds the unrolling: every pass
\* appends one id to the result.
RECURSIVE Kahn(_, _, _, _, _)
Kahn(graph, inDeg, queue, res, fuel) ==
    IF queue = <<>> \/ fuel = 0 THEN res
    ELSE LET stepId == Head(queue)
             r == Relax(graph[stepId], inDeg, Tail(queue))
         IN  Kahn(graph, r.inDegree, r.queue, Append(res, stepId), fuel - 1)

\* A resolver whose circular-dependency error lists every supplied step (C35
\* rests on the filter `!result.some(...)`).
resolveDependenciesListsAll(ss) ==
    IF MissingPairs(ss) # <<>>
    THEN [ok |-> FALSE,
          error |-> [kind |-> "missing-dependency",
                     dep |-> MissingPairs(ss)[1].dep,
                     step |-> MissingPairs(ss)[1].step]]
    ELSE LET res == Kahn(Graph(ss), InDegree(ss), InitialQueue(ss), <<>>,
                         2 * Len(ss) + Len(DepPairs(ss)))
         IN  IF Len(res) # Len(ss)
             THEN [ok |-> FALSE,
                   error |-> [kind |-> "circular-dependency", ids |-> Ids(ss)]]
             ELSE [ok |-> TRUE, order |-> res]

\* A resolver that runs the queue over the dependencies it can find and tests
\* the result's length before it reports a dependency it cannot find (C36
\* rests on the throw inside the second `for`).
resolveDependenciesCycleFirst(ss) ==
    LET found == [k \in 1..Len(ss) |->
                    [id |-> ss[k].id,
                     dependencies |->
                        SelectSeq(ss[k].dependencies,
                                  LAMBDA d : d \in Range(Ids(ss)))]]
        res == Kahn(Graph(found), InDegree(found), InitialQueue(found), <<>>,
                    2 * Len(ss) + Len(DepPairs(ss)))
    IN  IF Len(res) # Len(ss)
        THEN [ok |-> FALSE,
              error |-> [kind |-> "circular-dependency",
                         ids |-> SelectSeq(Ids(ss),
                                     LAMBDA s : s \notin Range(res))]]
        ELSE IF MissingPairs(ss) # <<>>
        THEN [ok |-> FALSE,
              error |-> [kind |-> "missing-dependency",
                         dep |-> MissingPairs(ss)[1].dep,
                         step |-> MissingPairs(ss)[1].step]]
        ELSE [ok |-> TRUE, order |-> res]

\* A resolver without the `result.length !== steps.length` test (C6 rests on
\* the test).
resolveDependenciesUnchecked(ss) ==
    IF MissingPairs(ss) # <<>>
    THEN [ok |-> FALSE,
          error |-> [kind |-> "missing-dependency",
                     dep |-> MissingPairs(ss)[1].dep,
                     step |-> MissingPairs(ss)[1].step]]
    ELSE [ok |-> TRUE,
          order |-> Kahn(Graph(ss), InDegree(ss), InitialQueue(ss), <<>>,
                         2 * Len(ss) + Len(DepPairs(ss)))]

\* resolveDependencies: the resolved order of ids, or the error thrown.
resolveDependencies(ss) ==
    IF MissingPairs(ss) # <<>>
    THEN [ok |-> FALSE,
          error |-> [kind |-> "missing-dependency",
                     dep |-> MissingPairs(ss)[1].dep,
                     step |-> MissingPairs(ss)[1].step]]
    ELSE LET res == Kahn(Graph(ss), InDegree(ss), InitialQueue(ss), <<>>,
                         2 * Len(ss) + Len(DepPairs(ss)))
         IN  IF Len(res) # Len(ss)
             THEN [ok |-> FALSE,
                   error |-> [kind |-> "circular-dependency",
                              ids |-> SelectSeq(Ids(ss),
                                          LAMBDA s : s \notin Range(res))]]
             ELSE [ok |-> TRUE, order |-> res]


\* ------------------------------------------------------------ pipelines
\* The `dependencies` array of step s under the edge set E, listed in IdOrder.
DepsOf(E, s) == SelectSeq(IdOrder, LAMBDA d : <<s, d>> \in E)

\* The runner only compares step ids for equality, so the ids are supplied in
\* one order, out of dependency order for most dependency relations, and every
\* relation over them is tried: each supply order is covered up to renaming.
Supplied == <<"C", "A", "B">>

SupplyOrders == {SubSeq(Supplied, 1, n) : n \in 0..Len(Supplied)}

EdgeSets(o) ==
    {E \in SUBSET (Range(o) \X DepIds) : Cardinality(E) <= MaxEdges}

Pipelines ==
    {[k \in 1..Len(o) |-> [id |-> o[k], dependencies |-> DepsOf(E, o[k])]] :
        <<o, E>> \in {<<o, E>> \in SupplyOrders \X SUBSET (StepIds \X DepIds) :
                        E \in EdgeSets(o)}}

\* ------------------------------------------------------------ the runner
\* Call sites of executeStep (RB SB RUN XRE XSE RA SA) and of the catch block
\* of run/resume (CRE CSE).
CallSites == {"RB", "SB", "RUN", "XRE", "XSE", "RA", "SA", "CRE", "CSE"}
RunnerSites == {"RB", "RA", "XRE", "CRE"}

HookOf(site) ==
    CASE site \in {"RB", "SB"} -> "beforeStep"
      [] site \in {"RA", "SA"} -> "afterStep"
      [] site \in {"XRE", "XSE", "CRE", "CSE"} -> "onError"
      [] OTHER -> "run"

LevelOf(site) ==
    CASE site \in RunnerSites -> "runner"
      [] site = "RUN" -> "body"
      [] OTHER -> "step"

\* `if (this.lifecycle?.beforeStep)`, `if (step.beforeStep)`, ...: is there a
\* callback to call at the site.  composeLifecycle defines all three hooks.
Present(site) ==
    CASE site = "RUN" -> TRUE
      [] site \in RunnerSites -> wiring = "cli" \/ HookOf(site) \in lifecycle
      [] OTHER -> HookOf(site) \in stepHooks

\* Can the callback at the site throw: a composed hook throws only through
\* the pipeline's own hook (the store's I/O is taken to succeed).
CanThrow(site) ==
    CASE site = "RUN" -> TRUE
      [] site \in RunnerSites -> HookOf(site) \in lifecycle
      [] OTHER -> HookOf(site) \in stepHooks

\* A runner that starts the step body without awaiting it (C5 rests on the
\* await).
AwaitedNotBody(site) == site # "RUN"

\* `await` at every call site of executeStep and of the catch of run/resume.
Awaited(site) == TRUE

\* A runner that fires the step-level afterStep before the runner-level one
\* (C4 rests on the order of the two `if` blocks).
OkNextStepLevelFirst(site) ==
    CASE site = "RB" -> "SB"
      [] site = "SB" -> "RUN"
      [] site = "RUN" -> "SA"
      [] site = "SA" -> "RA"
      [] site = "RA" -> "DONE"
      [] site = "XRE" -> "XSE"
      [] site = "XSE" -> "RETHROW"
      [] site = "CRE" -> "CSE"
      [] site = "CSE" -> "THROW"

\* A runner whose catch block does not rethrow (C3 rests on `throw error`).
OkNextSwallows(site) ==
    CASE site = "RB" -> "SB"
      [] site = "SB" -> "RUN"
      [] site = "RUN" -> "RA"
      [] site = "RA" -> "SA"
      [] site = "SA" -> "DONE"
      [] site = "XRE" -> "XSE"
      [] site = "XSE" -> "RETHROW"
      [] site = "CRE" -> "CSE"
      [] site = "CSE" -> "DONE"

\* Where control goes when the call at a site returns.
OkNext(site) ==
    CASE site = "RB" -> "SB"
      [] site = "SB" -> "RUN"
      [] site = "RUN" -> "RA"
      [] site = "RA" -> "SA"
      [] site = "SA" -> "DONE"
      [] site = "XRE" -> "XSE"
      [] site = "XSE" -> "RETHROW"
      [] site = "CRE" -> "CSE"
      [] site = "CSE" -> "THROW"

\* A runner that runs the body again when it failed (C24 rests on the catch
\* of executeStep going to the hooks).
ThrowNextRetries(site) ==
    CASE site = "RUN" -> "RUN"
      [] site \in {"RB", "SB", "RA", "SA", "XRE", "XSE"} -> "CATCH"
      [] site \in {"CRE", "CSE"} -> "REJECT"

\* Where control goes when the call at a site throws: the body's error is
\* caught inside executeStep, a hook's error of executeStep by the catch of
\* run/resume, and an error thrown inside that catch leaves run/resume.
ThrowNext(site) ==
    CASE site = "RUN" -> "XRE"
      [] site \in {"RB", "SB", "RA", "SA", "XRE", "XSE"} -> "CATCH"
      [] site \in {"CRE", "CSE"} -> "REJECT"

\* A loop over orderedSteps itself instead of the slice (C8 rests on the
\* slice).
CurStepUnsliced(order, start, f) == order[f.i + 1]

\* The step the loop stands at: stepsToRun[i] of orderedSteps.slice(startIndex).
CurStep(order, start, f) == order[start + f.i + 1]

\* A runner that records completions newest first (C2 rests on push).
CompletedUnshift(f, stepId) == <<stepId>> \o f.completedSteps

\* completedSteps.push(step.id)
Completed(f, stepId) == Append(f.completedSteps, stepId)

\* Control flow from a program point to the next call that is made, or to the
\* end of the invocation.  f holds the locals of run/resume.
RECURSIVE Flow(_, _, _, _)
Flow(point, f, order, start) ==
    CASE point = "LOOP" ->
           IF start + f.i < Len(order)
           THEN Flow("RB", f, order, start)
           ELSE [f EXCEPT !.at = "RETURN"]
      [] point \in CallSites ->
           IF Present(point)
           THEN [f EXCEPT !.at = point]
           ELSE Flow(OkNext(point), f, order, start)
      [] point = "DONE" ->
           Flow("LOOP",
                [f EXCEPT !.completedSteps =
                              Completed(f, CurStep(order, start, f)),
                          !.i = @ + 1], order, start)
      [] point = "RETHROW" -> Flow("CATCH", f, order, start)
      [] point = "CATCH" ->
           Flow("CRE",
                [f EXCEPT !.failedSteps = Append(@, CurStep(order, start, f))],
                order, start)
      [] point = "THROW" -> [f EXCEPT !.at = "REJECT"]
      [] point = "REJECT" -> [f EXCEPT !.at = "REJECT"]

Frame ==
    [at |-> at, i |-> i, completedSteps |-> completedSteps,
     failedSteps |-> failedSteps, error |-> error]

\* What a callback is called with: the lifecycle event, and for an onError
\* hook the error event with its attempt and willRetry.
Event(ev, site, step, stepIndex) ==
    IF HookOf(site) = "onError"
    THEN [ev |-> ev, site |-> site, hook |-> HookOf(site),
          level |-> LevelOf(site), step |-> step, stepIndex |-> stepIndex,
          context |-> context.id, data |-> context.data,
          attempt |-> 1, willRetry |-> FALSE]
    ELSE [ev |-> ev, site |-> site, hook |-> HookOf(site),
          level |-> LevelOf(site), step |-> step, stepIndex |-> stepIndex,
          context |-> context.id, data |-> context.data]

NoAbort == [pos |-> -1, step |-> NoStep, body |-> FALSE]

\* The invocation continues at f.at, returns its RunResult or rejects.
Land(f, order, start, tr) ==
    /\ at' = f.at
    /\ i' = f.i
    /\ completedSteps' = f.completedSteps
    /\ failedSteps' = f.failedSteps
    /\ error' = f.error
    /\ pc' = CASE f.at = "RETURN" -> "returned"
               [] f.at = "REJECT" -> "rejected"
               [] OTHER -> "exec"
    /\ result' = IF f.at = "RETURN"
                 THEN [totalSteps |-> Len(order),
                       completedSteps |-> f.completedSteps,
                       failedSteps |-> f.failedSteps]
                 ELSE result
    /\ rejection' = IF f.at = "REJECT" THEN f.error ELSE rejection
    /\ aborted' = IF f.at = "REJECT" /\ f.error.kind = "thrown"
                  THEN [pos |-> start + f.i,
                        step |-> CurStep(order, start, f),
                        body |-> \E k \in 1..Len(tr) :
                                    /\ tr[k].ev = "throw"
                                    /\ tr[k].site = "RUN"
                                    /\ tr[k].stepIndex = start + f.i]
                  ELSE aborted

\* An invocation that fails before its loop starts.
Fail(err, order) ==
    /\ pc' = "rejected"
    /\ rejection' = err
    /\ orderedSteps' = order
    /\ UNCHANGED <<startIndex, i, at, error, completedSteps, failedSteps,
                   result, aborted>>

\* Start the loop of run/resume.
Loop(order, start, completed, failed) ==
    /\ orderedSteps' = order
    /\ startIndex' = start
    /\ Land(Flow("LOOP", [at |-> "LOOP", i |-> 0, completedSteps |-> completed,
                          failedSteps |-> failed, error |-> NoError],
                 order, start),
            order, start, <<>>)

\* ScrapeRunnerImpl.run, up to its first call.
run(opt) ==
    LET r == resolveDependencies(steps)
        start == IF opt # NoStep THEN IndexOf(r.order, opt) - 1 ELSE 0
    IN  IF ~r.ok THEN Fail(r.error, <<>>)
        ELSE IF start < 0
             THEN Fail([kind |-> "step-not-found", id |-> opt], r.order)
             ELSE Loop(r.order, start, <<>>, <<>>)

\* An index test that lets startIndex = orderedSteps.length through (C9 rests
\* on `>=`).
ValidIndexInclusive(start, order) == ~(start < 0 \/ start > Len(order))

\* `if (startIndex < 0 || startIndex >= orderedSteps.length) throw`
ValidIndex(start, order) == ~(start < 0 \/ start >= Len(order))

\* ScrapeRunnerImpl.resume, up to its first call.
resume(st) ==
    LET r == resolveDependencies(steps)
    IN  IF ~r.ok THEN Fail(r.error, <<>>)
        ELSE IF ~ValidIndex(st.stepIndex, r.order)
             THEN Fail([kind |-> "invalid-step-index", index |-> st.stepIndex],
                       r.order)
             ELSE Loop(r.order, st.stepIndex, st.completedStepIds,
                       st.failedStepIds)

\* A value of context.data and of a payload: a mapping from keys to values;
\* { ...a, ...b }.
EmptyData == <<>>

Spread(a, b) ==
    [k \in DOMAIN a \cup DOMAIN b |-> IF k \in DOMAIN b THEN b[k] ELSE a[k]]

\* A resume() that does not copy the payload (C26 rests on lines 282-284).
SeededEmpty(payload) == EmptyData

\* resume(): context.data = { ...context.data, ...state.payload } on the new
\* context; an absent payload is the empty one.
Seeded(payload) == Spread(EmptyData, payload)

\* A step body whose write does not reach the context the later steps get
\* (C25 rests on the one context object handed to every executeStep).
WrittenNowhere(data, step, id) == data

\* What the body of a step leaves in context.data: under its own id, its id
\* and the context it ran in.
Written(data, step, id) ==
    Spread(data, [k \in {step} |-> [by |-> step, in |-> id]])

NoContext == [id |-> 0, data |-> EmptyData]

\* new ScrapeContextImpl(mergedConfig): the identity of the new context is
\* the number of the invocation.
Enter(e, st, opt) ==
    /\ entry' = e
    /\ context' = CASE e = "run" -> [id |-> invocations + 1, data |-> EmptyData]
                    [] e = "resume" -> [id |-> invocations + 1,
                                        data |-> Seeded(st.payload)]
                    [] OTHER -> context
    /\ state' = st
    /\ startStepId' = opt
    /\ prior' = aborted
    /\ trace' = <<>>
    /\ inflight' = {}
    /\ invocations' = invocations + 1

NoState ==
    [currentStepId |-> "", stepIndex |-> 0, completedStepIds |-> <<>>,
     failedStepIds |-> <<>>, payload |-> EmptyData]

\* A payload a caller of resume() hands in.
SavedPayload == [k \in {"A", "saved"} |-> [from |-> k]]

\* The options and states a caller of the library hands in: run() from the
\* start or from step B (which the pipeline may lack); resume() at any index
\* from -1 to MaxIndex, with or without steps recorded as completed or failed.
StartStepIds == {NoStep, "B"}

ResumeStates ==
    {[currentStepId |-> "", stepIndex |-> n, completedStepIds |-> <<>>,
      failedStepIds |-> <<>>, payload |-> EmptyData] : n \in -1..MaxIndex}
    \cup
    {[currentStepId |-> "", stepIndex |-> n, completedStepIds |-> <<"A">>,
      failedStepIds |-> <<"B">>, payload |-> SavedPayload] : n \in 0..1}

Run ==
    /\ pc = "idle" /\ wiring = "lib"
    /\ \E opt \in StartStepIds :
         /\ run(opt)
         /\ Enter("run", NoState, opt)
    /\ UNCHANGED sideVars
    /\ UNCHANGED <<configVars, storeVars>>

Resume ==
    /\ pc = "idle" /\ wiring = "lib"
    /\ \E st \in ResumeStates :
         /\ resume(st)
         /\ Enter("resume", st, NoStep)
    /\ UNCHANGED sideVars
    /\ UNCHANGED <<configVars, storeVars>>


\* ---------------------------------------------------------- the step log
\* A StepLogger: its run id (a sequence of characters) and persistence policy.
\* All loggers of the model share one log directory, `disk`.
RunId == <<"r", "1">>

\* createStepLogger of the command line: persistInProductionOnly is false.
CliLogger ==
    [runId |-> RunId, persistInProductionOnly |-> FALSE, isProduction |-> FALSE]

shouldPersist(lg) ==
    IF ~lg.persistInProductionOnly THEN TRUE ELSE lg.isProduction

filePrefix(lg) == lg.runId \o <<"-">>

buildFilePath(lg, stepId) == filePrefix(lg) \o <<stepId, ".json">>

startsWith(name, prefix) ==
    Len(name) >= Len(prefix) /\ SubSeq(name, 1, Len(prefix)) = prefix

endsWith(name, suffix) ==
    /\ Len(name) >= Len(suffix)
    /\ SubSeq(name, Len(name) - Len(suffix) + 1, Len(name)) = suffix

\* A default record that counts as in progress (C13 rests on index: 0).
DefaultRecordInProgress(stepId, now) ==
    [stepId |-> stepId, index |-> 1, fails |-> <<>>, updatedAt |-> now]

DefaultRecord(stepId, now) ==
    [stepId |-> stepId, index |-> 0, fails |-> <<>>, updatedAt |-> now]

\* readStep: the persisted record, or the default when the file is absent or
\* its content does not parse.
readStep(lg, d, stepId, now) ==
    LET path == buildFilePath(lg, stepId)
    IN  IF path \notin DOMAIN d THEN DefaultRecord(stepId, now)
        ELSE IF d[path].json THEN d[path].value
        ELSE DefaultRecord(stepId, now)

writeStep(lg, d, record) ==
    LET path == buildFilePath(lg, record.stepId)
    IN  [q \in DOMAIN d \cup {path} |->
            IF q = path THEN [json |-> TRUE, value |-> record] ELSE d[q]]

\* A setLogForCurrentStepIndex without `if (index === 0) record.fails = []`
\* (C11 rests on it).
setLogForCurrentStepIndexKeepsFails(lg, d, stepId, index, now) ==
    IF ~shouldPersist(lg) THEN d
    ELSE LET record == readStep(lg, d, stepId, now)
         IN  writeStep(lg, d,
                 [record EXCEPT !.index = index, !.updatedAt = now])

setLogForCurrentStepIndex(lg, d, stepId, index, now) ==
    IF ~shouldPersist(lg) THEN d
    ELSE LET record == readStep(lg, d, stepId, now)
         IN  writeStep(lg, d,
                 [record EXCEPT !.index = index,
                                !.fails = IF index = 0 THEN <<>> ELSE @,
                                !.updatedAt = now])

\* A setLogForCurrentStepFails that puts the new id first (C12 rests on the
\* order of the spread).
setLogForCurrentStepFailsFirst(lg, d, stepId, failureId, now) ==
    IF ~shouldPersist(lg) THEN d
    ELSE LET record == readStep(lg, d, stepId, now)
         IN  writeStep(lg, d,
                 [record EXCEPT !.fails = <<failureId>> \o @,
                                !.updatedAt = now])

setLogForCurrentStepFails(lg, d, stepId, failureId, now) ==
    IF ~shouldPersist(lg) THEN d
    ELSE LET record == readStep(lg, d, stepId, now)
         IN  writeStep(lg, d,
                 [record EXCEPT !.fails = Append(@, failureId),
                                !.updatedAt = now])

\* fs.readdir: the names of the directory, in the order the system lists them.
RECURSIVE SeqOf(_)
SeqOf(S) ==
    IF S = {} THEN <<>>
    ELSE LET x == CHOOSE y \in S : TRUE IN <<x>> \o SeqOf(S \ {x})

safeReadDir(d) == SeqOf(DOMAIN d)

\* Array.prototype.sort by updatedAt: a stable sort.
RECURSIVE SortByUpdatedAt(_)
SortByUpdatedAt(records) ==
    IF records = <<>> THEN <<>>
    ELSE LET n == Len(records)
             last == records[n]
             front == SortByUpdatedAt(SubSeq(records, 1, n - 1))
         IN  SelectSeq(front, LAMBDA r : r.updatedAt <= last.updatedAt)
             \o <<last>>
             \o SelectSeq(front, LAMBDA r : r.updatedAt > last.updatedAt)

getAllLogs(lg, d) ==
    LET relevant == SelectSeq(safeReadDir(d),
                        LAMBDA file : /\ startsWith(file, filePrefix(lg))
                                      /\ endsWith(file, <<".json">>))
        parsed == SelectSeq(relevant, LAMBDA file : d[file].json)
    IN  SortByUpdatedAt([k \in 1..Len(parsed) |-> d[parsed[k]].value])

StepIdsOf(logs) == [k \in 1..Len(logs) |-> logs[k].stepId]

\* buildRunnerState: `payload[log.stepId] = log.payload` for every log that
\* has one, a later log overwriting an earlier one.
PayloadOf(logs) ==
    LET has == {k \in 1..Len(logs) : "payload" \in DOMAIN logs[k]}
    IN  [s \in {logs[k].stepId : k \in has} |->
            logs[CHOOSE k \in has :
                    /\ logs[k].stepId = s
                    /\ \A j \in has : logs[j].stepId = s => j <= k].payload]

\* A buildRunnerState that takes the first record in progress instead of the
\* last (C14 rests on the reversal).
buildRunnerStateFirst(lg, d, currentStepId) ==
    LET logs == getAllLogs(lg, d)
        inProgress == SelectSeq(logs, LAMBDA log : log.index > 0)
        inferredCurrentStep ==
            IF currentStepId # NoStep THEN currentStepId
            ELSE IF inProgress # <<>> THEN inProgress[1].stepId
            ELSE IF logs # <<>> THEN logs[Len(logs)].stepId
            ELSE ""
        mine == SelectSeq(logs, LAMBDA log : log.stepId = inferredCurrentStep)
    IN  [currentStepId |-> inferredCurrentStep,
         stepIndex |-> IF mine # <<>> THEN mine[1].index ELSE 0,
         completedStepIds |->
             StepIdsOf(SelectSeq(logs, LAMBDA log : log.index = 0)),
         failedStepIds |->
             StepIdsOf(SelectSeq(logs, LAMBDA log : Len(log.fails) > 0)),
         payload |-> PayloadOf(logs)]

\* buildRunnerState(currentStepId); NoStep stands for an absent argument.
buildRunnerState(lg, d, currentStepId) ==
    LET logs == getAllLogs(lg, d)
        inProgress == SelectSeq(logs, LAMBDA log : log.index > 0)
        inferredCurrentStep ==
            IF currentStepId # NoStep THEN currentStepId
            ELSE IF inProgress # <<>> THEN inProgress[Len(inProgress)].stepId
            ELSE IF logs # <<>> THEN logs[Len(logs)].stepId
            ELSE ""
        mine == SelectSeq(logs, LAMBDA log : log.stepId = inferredCurrentStep)
    IN  [currentStepId |-> inferredCurrentStep,
         stepIndex |-> IF mine # <<>> THEN mine[1].index ELSE 0,
         completedStepIds |->
             StepIdsOf(SelectSeq(logs, LAMBDA log : log.index = 0)),
         failedStepIds |->
             StepIdsOf(SelectSeq(logs, LAMBDA log : Len(log.fails) > 0)),
         payload |-> PayloadOf(logs)]

\* inferResumeStepId of the command line; steps is never empty here.
inferResumeStepId(logs, explicitStepId, ss) ==
    LET inProgress == SelectSeq(logs, LAMBDA log : log.index > 0)
    IN  IF explicitStepId # NoStep THEN explicitStepId
        ELSE IF inProgress # <<>> THEN inProgress[1].stepId
        ELSE ss[1].id

\* composeLifecycle: what the runner-level hook of the command line writes
\* before it calls the pipeline's own hook.
composeLifecycle(lg, d, site, stepId, stepIndex, now) ==
    CASE site = "RB" -> setLogForCurrentStepIndex(lg, d, stepId, stepIndex, now)
      [] site = "RA" -> setLogForCurrentStepIndex(lg, d, stepId, 0, now)
      [] site \in {"XRE", "CRE"} ->
           setLogForCurrentStepFails(lg, d, stepId, stepIndex, now)
      [] OTHER -> d

\* The effect on the log directory of starting the call at a site.
Store(site, stepId, stepIndex) ==
    IF wiring = "cli" /\ site \in RunnerSites
    THEN /\ disk' = composeLifecycle(CliLogger, disk, site, stepId, stepIndex,
                                     clock)
         /\ clock' = clock + 1
    ELSE UNCHANGED storeVars

\* Start the call at the site the invocation stands at.  An awaited call
\* suspends the invocation until it settles.
Invoke ==
    /\ pc = "exec"
    /\ at \in CallSites
    /\ \A c \in inflight : ~Awaited(c.site)
    /\ LET f == Frame
           step == CurStep(orderedSteps, startIndex, f)
           c == [site |-> at, step |-> step, stepIndex |-> startIndex + i]
           tr == Append(trace, Event("call", at, step, startIndex + i))
       IN  /\ trace' = tr
           /\ inflight' = inflight \cup {c}
           /\ Store(at, step, startIndex + i)
           /\ IF Awaited(at)
              THEN UNCHANGED <<pc, at, i, completedSteps, failedSteps, error,
                               result, rejection, aborted>>
              ELSE Land(Flow(OkNext(at), f, orderedSteps, startIndex),
                        orderedSteps, startIndex, tr)
    /\ UNCHANGED sideVars
    /\ UNCHANGED <<configVars, entry, orderedSteps, startIndex, state,
                   startStepId, prior, invocations, context>>

\* The awaited call returns.
Returns ==
    /\ pc = "exec"
    /\ \E c \in inflight :
         /\ Awaited(c.site)
         /\ LET tr == Append(trace, Event("return", c.site, c.step, c.stepIndex))
            IN  /\ trace' = tr
                /\ inflight' = inflight \ {c}
                /\ context' = IF c.site = "RUN"
                              THEN [context EXCEPT
                                      !.data = Written(@, c.step, context.id)]
                              ELSE context
                /\ Land(Flow(OkNext(c.site), Frame, orderedSteps, startIndex),
                        orderedSteps, startIndex, tr)
    /\ UNCHANGED sideVars
    /\ UNCHANGED <<configVars, storeVars, entry, orderedSteps, startIndex,
                   state, startStepId, prior, invocations>>

\* The awaited call throws: the error is named by the place of its throw in
\* the trace.
Throws ==
    /\ pc = "exec"
    /\ \E c \in inflight :
         /\ Awaited(c.site)
         /\ CanThrow(c.site)
         /\ LET tr == Append(trace, Event("throw", c.site, c.step, c.stepIndex))
                e == [kind |-> "thrown", site |-> c.site, step |-> c.step,
                      n |-> Len(tr)]
            IN  /\ trace' = tr
                /\ inflight' = inflight \ {c}
                /\ Land(Flow(ThrowNext(c.site), [Frame EXCEPT !.error = e],
                             orderedSteps, startIndex),
                        orderedSteps, startIndex, tr)
    /\ UNCHANGED context
    /\ UNCHANGED sideVars
    /\ UNCHANGED <<configVars, storeVars, entry, orderedSteps, startIndex,
                   state, startStepId, prior, invocations>>


\* ------------------------------------------------------- the command line
\* `scrapar run`: a runner with the composed lifecycle, run() from the start.
CliRun ==
    /\ pc = "idle" /\ wiring = "cli"
    /\ run(NoStep)
    /\ Enter("run", NoState, NoStep)
    /\ UNCHANGED sideVars
    /\ UNCHANGED <<configVars, storeVars>>

CliStartSteps == {NoStep, "B"}

\* The step index the resume command hands to the runner: the position of the
\* inferred step in pipeline.steps, the steps as supplied (0 when absent).
CliStepIndex(ss, stepId) ==
    LET k == IndexOf(Ids(ss), stepId) - 1
    IN  IF k > 0 THEN k ELSE 0

\* `scrapar resume --run-id`: a new process on the same log directory.
CliResume ==
    /\ wiring = "cli"
    /\ pc \in {"returned", "rejected"}
    /\ invocations < MaxInvocations
    /\ \E startStep \in CliStartSteps :
         LET logs == getAllLogs(CliLogger, disk)
         IN  IF logs = <<>>
             THEN /\ pc' = "skipped"
                  /\ Enter("none", NoState, startStep)
                  /\ UNCHANGED <<orderedSteps, startIndex, i, at, error,
                                 completedSteps, failedSteps, result,
                                 rejection, aborted>>
             ELSE IF steps = <<>> /\ startStep = NoStep
                     /\ \A k \in 1..Len(logs) : logs[k].index = 0
             THEN /\ Fail([kind |-> "no-steps"], <<>>)
                  /\ Enter("none", NoState, startStep)
             ELSE LET inferredStepId == inferResumeStepId(logs, startStep, steps)
                      st == [buildRunnerState(CliLogger, disk, inferredStepId)
                                EXCEPT !.currentStepId = inferredStepId,
                                       !.stepIndex =
                                           CliStepIndex(steps, inferredStepId)]
                  IN  /\ resume(st)
                      /\ Enter("resume", st, startStep)
    /\ UNCHANGED sideVars
    /\ UNCHANGED <<configVars, storeVars>>

\* No loop controller is in use.
\* ------------------------------------------------ the loop controller
\* LoopController of core/loop-controller.ts.  The timer of setInterval is the
\* action Tick; an item callback that was started and has not settled is an
\* entry of `pending`; the rest of the tick's async function after
\* `await todo(...)` is the action Settle.

MaxLimit == 2
MaxItems == 1
MaxPending == 2
DEFAULT_MAX_ITEMS == 10

\* The item list handed to loopDelay; list[n] of the code is Item(n).
list == <<"p", "q">>

Item(n) == IF n + 1 \in DOMAIN list THEN list[n + 1] ELSE "undefined"

\* options.getCurrentStepValue: <<>> when not supplied, <<p>> for an accessor
\* that reports p.
Accessors == {<<>>} \cup {<<p>> : p \in 0..MaxLimit}

Controller(isProduction, maxItems, getCurrentStepValue) ==
    /\ ctl = [isProduction |-> isProduction, maxItems |-> maxItems,
              getCurrentStepValue |-> getCurrentStepValue,
              limit |-> 0, i |-> 0, failing |-> {}]
    /\ loop = [adjustedLimit |-> 0, startIndex |-> 0, currentIndex |-> 0,
               intervalId |-> "none", failures |-> <<>>]
    /\ pending = <<>>
    /\ events = <<>>

NoController == Controller(FALSE, DEFAULT_MAX_ITEMS, <<>>)

\* (C22 rests on the cap.)
Uncapped(c, limit) == limit

\* loopDelay, lines 48-53: the cap outside production.
Capped(c, limit) ==
    IF ~c.isProduction /\ limit > c.maxItems THEN c.maxItems ELSE limit

\* loopDelay, lines 55-59.
Resuming(c) ==
    /\ Len(c.getCurrentStepValue) > 0
    /\ c.getCurrentStepValue[1] > 0

StartIndex(c, start) ==
    IF Resuming(c) THEN c.getCurrentStepValue[1] ELSE start

AdjustedLimit(c, limit) ==
    IF Resuming(c) THEN Capped(c, limit) - c.getCurrentStepValue[1]
    ELSE Capped(c, limit)

\* The controller on its own, and the controller restarted after an
\* interruption.
LoopWirings == {"loop", "restart"}

LoopIdle ==
    UNCHANGED <<configVars, runnerVars, storeVars, invocations, aborted, lastOp,
                writers>>

\* loopDelay(limit, todo, done, delay, i, list); `failing` is the set of
\* indices for which todo fails (no index above limit is ever handed to todo).
LoopDelay ==
    /\ wiring \in LoopWirings
    /\ loop.intervalId = "none"
    /\ \E limit \in 0..MaxLimit, start \in 0..1 : \E failing \in SUBSET (0..limit) :
        /\ ctl' = [ctl EXCEPT !.limit = limit, !.i = start, !.failing = failing]
        /\ loop' = [loop EXCEPT !.adjustedLimit = AdjustedLimit(ctl, limit),
                                !.startIndex = StartIndex(ctl, start),
                                !.currentIndex = StartIndex(ctl, start),
                                !.intervalId = "on"]
    /\ UNCHANGED <<pending, events>>
    /\ LoopIdle

\* The timer fires, lines 64-67 and 96-107: the tick runs up to its first
\* await.
\* (C20 rests on the order of the three calls of the else branch.)
TickDoneFirst ==
    /\ wiring \in LoopWirings
    /\ loop.intervalId = "on"
    /\ IF loop.currentIndex <= loop.adjustedLimit
       THEN /\ Len(pending) < MaxPending
            /\ pending' = Append(pending, loop.currentIndex)
            /\ events' = Append(events, <<"todo", loop.currentIndex>>)
            /\ UNCHANGED loop
       ELSE /\ loop' = [loop EXCEPT !.intervalId = "cleared"]
            /\ events' = events \o <<<<"done", list>>, <<"clearInterval">>, <<"persist", 0>>>>
            /\ UNCHANGED pending
    /\ UNCHANGED ctl
    /\ LoopIdle

Tick ==
    /\ wiring \in LoopWirings
    /\ loop.intervalId = "on"
    /\ IF loop.currentIndex <= loop.adjustedLimit
       THEN /\ Len(pending) < MaxPending
            /\ pending' = Append(pending, loop.currentIndex)
            /\ events' = Append(events, <<"todo", loop.currentIndex>>)
            /\ UNCHANGED loop
       ELSE /\ loop' = [loop EXCEPT !.intervalId = "cleared"]
            /\ events' = events \o <<<<"clearInterval">>, <<"persist", 0>>, <<"done", list>>>>
            /\ UNCHANGED pending
    /\ UNCHANGED ctl
    /\ LoopIdle

Drop(q, k) == SubSeq(q, 1, k - 1) \o SubSeq(q, k + 1, Len(q))

\* An item callback settles and the tick that awaited it runs to its end,
\* lines 68-95.
Resolved ==
    /\ events' = events \o <<<<"persist", loop.currentIndex>>,
                             <<"progress", loop.currentIndex, loop.adjustedLimit>>>>
    /\ loop' = [loop EXCEPT !.currentIndex = @ + 1]

\* (C21 rests on the catch block going forward.)
RejectedRestarts ==
    /\ events' = Append(events, <<"failure", loop.currentIndex, Item(loop.currentIndex)>>)
    /\ loop' = [loop EXCEPT !.failures = Append(@, [index |-> loop.currentIndex,
                                                     item |-> Item(loop.currentIndex)]),
                            !.currentIndex = loop.startIndex]

\* (C17 rests on the catch block recording the failure.)
RejectedUnrecorded ==
    /\ events' = Append(events, <<"failure", loop.currentIndex, Item(loop.currentIndex)>>)
    /\ loop' = [loop EXCEPT !.currentIndex = @ + 1]

\* (C18 rests on the catch block going on to the next index.)
RejectedHalts ==
    /\ events' = Append(events, <<"failure", loop.currentIndex, Item(loop.currentIndex)>>)
    /\ loop' = [loop EXCEPT !.failures = Append(@, [index |-> loop.currentIndex,
                                                     item |-> Item(loop.currentIndex)]),
                            !.intervalId = "cleared"]

Rejected ==
    /\ events' = Append(events, <<"failure", loop.currentIndex, Item(loop.currentIndex)>>)
    /\ loop' = [loop EXCEPT !.failures = Append(@, [index |-> loop.currentIndex,
                                                     item |-> Item(loop.currentIndex)]),
                            !.currentIndex = @ + 1]

Settle ==
    /\ wiring \in LoopWirings
    /\ \E k \in DOMAIN pending :
        /\ IF pending[k] \in ctl.failing THEN Rejected ELSE Resolved
        /\ pending' = Drop(pending, k)
    /\ UNCHANGED ctl
    /\ LoopIdle

\* (C23 rests on stop() clearing the timer.)
StopKeepsTicking ==
    /\ wiring \in LoopWirings
    /\ loop.intervalId # "on" => \A k \in DOMAIN events : events[k] # <<"stop", FALSE>>
    /\ \A k \in DOMAIN events : events[k] # <<"stop", TRUE>>
    /\ UNCHANGED loop
    /\ events' = Append(events, <<"stop", loop.intervalId = "on">>)
    /\ UNCHANGED <<ctl, pending>>
    /\ LoopIdle

\* stop(), lines 111-116; it may be called at any time.  The log entry says
\* whether the call found a timer and cleared it; one call that finds no timer
\* is followed.
Stop ==
    /\ wiring \in LoopWirings
    /\ loop.intervalId # "on" => \A k \in DOMAIN events : events[k] # <<"stop", FALSE>>
    /\ IF loop.intervalId = "on"
       THEN loop' = [loop EXCEPT !.intervalId = "cleared"]
       ELSE UNCHANGED loop
    /\ events' = Append(events, <<"stop", loop.intervalId = "on">>)
    /\ UNCHANGED <<ctl, pending>>
    /\ LoopIdle

\* getFailures(), lines 118-120.
getFailures == loop.failures

\* What the position accessor of a new controller reports: the argument of
\* the last setLogForCurrentStepIndex call of the interrupted loop, 0 when it
\* made none.
LastPersisted(log) ==
    LET at0 == {k \in DOMAIN log : log[k][1] = "persist"}
    IN  IF at0 = {} THEN 0
        ELSE log[CHOOSE k \in at0 : \A j \in at0 : j <= k][2]

\* The indices whose item callback has succeeded: started, not failing, and
\* at least one of its invocations no longer pending.
Succeeded(log, pend, failing) ==
    {n \in 0..MaxLimit :
        /\ n \notin failing
        /\ Cardinality({k \in DOMAIN log : log[k][1] = "todo" /\ log[k][2] = n})
             > Cardinality({k \in DOMAIN pend : pend[k] = n})}

\* The loop is interrupted before it completed (stop(), or the end of the
\* process, which takes the callbacks still pending with it) and a new
\* controller whose getCurrentStepValue reports the persisted index is given
\* the same loopDelay call.  The log keeps the position reported and the
\* indices that had succeeded.
Restart ==
    /\ wiring = "restart"
    /\ loop.intervalId # "none"
    /\ \A k \in DOMAIN events : events[k][1] \notin {"restart", "done"}
    /\ LET p == LastPersisted(events)
           c == [ctl EXCEPT !.getCurrentStepValue = <<p>>, !.i = 0]
       IN  /\ ctl' = c
           /\ loop' = [adjustedLimit |-> AdjustedLimit(c, c.limit),
                       startIndex |-> StartIndex(c, 0),
                       currentIndex |-> StartIndex(c, 0),
                       intervalId |-> "on", failures |-> <<>>]
           /\ events' = Append(events,
                  <<"restart", p, Succeeded(events, pending, ctl.failing)>>)
    /\ pending' = <<>>
    /\ LoopIdle

\* ------------------------------------------------ the step log, directly
\* Two run ids on one log directory, the first a prefix of the second, and
\* the step ids, progress indices, failure ids and payloads handed in.
R1 == <<"r">>
R2 == <<"r", "-", "1">>
StoreStepIds == {"A", "B"}
ProgressValues == {0, 10}
FailureIds == {1, 2}
Payloads == {[k |-> 1]}
\* Most write operations in one behaviour.
MaxWrites == 2

\* new StepLogger({runId, persistInProductionOnly, isProduction}): a logger of
\* run R1 that persists, a logger of run R1 with the constructor's defaults
\* (persist in production only, not in production), a logger of run R2.
Persisting(runId) ==
    [runId |-> runId, persistInProductionOnly |-> FALSE, isProduction |-> FALSE]

DevLogger(runId) ==
    [runId |-> runId, persistInProductionOnly |-> TRUE, isProduction |-> FALSE]

Loggers == {Persisting(R1), DevLogger(R1), Persisting(R2)}

\* The steps a logger is used for: both steps in run R1, step A elsewhere.
StepsOf(lg) == IF lg = Persisting(R1) THEN StoreStepIds ELSE {"A"}

\* { ...record.payload, ...payload }
MergePayload(record, payload) ==
    LET old == IF "payload" \in DOMAIN record THEN record.payload ELSE <<>>
    IN  [k \in DOMAIN old \cup DOMAIN payload |->
            IF k \in DOMAIN payload THEN payload[k] ELSE old[k]]

setStepPayload(lg, d, stepId, payload, now) ==
    IF ~shouldPersist(lg) THEN d
    ELSE LET record == readStep(lg, d, stepId, now)
             merged == MergePayload(record, payload)
         IN  writeStep(lg, d,
                 [f \in DOMAIN record \cup {"payload"} |->
                     CASE f = "payload" -> merged
                       [] f = "updatedAt" -> now
                       [] OTHER -> record[f]])

getLogByStep(lg, d, stepId, now) == readStep(lg, d, stepId, now)

\* fs.rm(path, {force: true}): the file is gone, absent or not.
Remove(d, paths) == [q \in DOMAIN d \ paths |-> d[q]]

clearStep(lg, d, stepId) ==
    IF ~shouldPersist(lg) THEN d
    ELSE Remove(d, {buildFilePath(lg, stepId)})

clearAll(lg, d) ==
    IF ~shouldPersist(lg) THEN d
    ELSE Remove(d, {file \in Range(safeReadDir(d)) :
                        /\ startsWith(file, filePrefix(lg))
                        /\ endsWith(file, <<".json">>)})

NoOp == [op |-> "none"]

\* One operation of a logger, run to completion: what it returns (Void for a
\* write), and the log directory before it.
Void == "void"

Did(op, lg, stepId, arg, value, d) ==
    /\ lastOp' = [op |-> op, lg |-> lg, stepId |-> stepId, arg |-> arg,
                  value |-> value, before |-> disk, now |-> clock]
    /\ disk' = d
    /\ clock' = IF d # disk THEN clock + 1 ELSE clock
    /\ UNCHANGED <<configVars, runnerVars, invocations, aborted, loopVars,
                   writers>>

Writes == clock - 1

SetProgress ==
    /\ wiring = "store" /\ Writes < MaxWrites
    /\ \E lg \in Loggers, index \in ProgressValues : \E stepId \in StepsOf(lg) :
         Did("setProgress", lg, stepId, index, Void,
             setLogForCurrentStepIndex(lg, disk, stepId, index, clock))

RecordFailure ==
    /\ wiring = "store" /\ Writes < MaxWrites
    /\ \E lg \in Loggers, failureId \in FailureIds : \E stepId \in StepsOf(lg) :
         Did("recordFailure", lg, stepId, failureId, Void,
             setLogForCurrentStepFails(lg, disk, stepId, failureId, clock))

SetPayload ==
    /\ wiring = "store" /\ Writes < MaxWrites
    /\ \E lg \in Loggers, payload \in Payloads : \E stepId \in StepsOf(lg) :
         Did("setPayload", lg, stepId, payload, Void,
             setStepPayload(lg, disk, stepId, payload, clock))

ClearStep ==
    /\ wiring = "store"
    /\ \E lg \in Loggers : \E stepId \in StepsOf(lg) :
         Did("clearStep", lg, stepId, Void, Void, clearStep(lg, disk, stepId))

ClearAll ==
    /\ wiring = "store"
    /\ \E lg \in Loggers :
         Did("clearRun", lg, NoStep, Void, Void, clearAll(lg, disk))

GetLogByStep ==
    /\ wiring = "store"
    /\ \E lg \in Loggers : \E stepId \in StepsOf(lg) :
         Did("getRecord", lg, stepId, Void,
             getLogByStep(lg, disk, stepId, clock), disk)

GetAllLogs ==
    /\ wiring = "store"
    /\ \E lg \in Loggers :
         Did("getAllRecords", lg, NoStep, Void, getAllLogs(lg, disk), disk)

BuildRunnerState ==
    /\ wiring = "store"
    /\ \E lg \in Loggers : \E currentStepId \in {NoStep} \cup StepsOf(lg) :
         Did("buildResumeState", lg, NoStep, currentStepId,
             buildRunnerState(lg, disk, currentStepId), disk)

\* ------------------------------------------- the step log, damaged files
\* What a log file can hold besides a record written by writeStep: text that
\* JSON.parse rejects, and the JSON text `null`, which JSON.parse accepts and
\* turns into null.
Garbled == [json |-> FALSE, value |-> "{"]
JsonNull == [null |-> TRUE]
NullContent == [json |-> TRUE, value |-> JsonNull]
DamagedContents == {Garbled, NullContent}

IsNull(v) == "null" \in DOMAIN v

\* An operation that ends with the TypeError of a property access on null:
\* nothing is written.
Failed(op, lg, stepId, arg) ==
    /\ lastOp' = [op |-> "TypeError", during |-> op, lg |-> lg,
                  stepId |-> stepId, arg |-> arg, before |-> disk,
                  now |-> clock]
    /\ UNCHANGED <<disk, clock>>
    /\ UNCHANGED <<configVars, runnerVars, invocations, aborted, loopVars,
                   writers>>

\* The file of a step is overwritten from outside the logger.
Damage ==
    /\ wiring = "damaged"
    /\ \E stepId \in StoreStepIds, content \in DamagedContents :
         LET path == buildFilePath(CliLogger, stepId)
         IN  /\ disk' = [q \in DOMAIN disk \cup {path} |->
                            IF q = path THEN content ELSE disk[q]]
             /\ lastOp' = [op |-> "damage", stepId |-> stepId]
    /\ UNCHANGED clock
    /\ UNCHANGED <<configVars, runnerVars, invocations, aborted, loopVars,
                   writers>>

\* The write operations: `record.index = index`, `record.fails` and
\* `record.payload` are accesses on what readStep returned.
DamagedSetProgress ==
    /\ wiring = "damaged" /\ Writes < MaxWrites
    /\ \E stepId \in StoreStepIds, index \in ProgressValues :
         IF IsNull(readStep(CliLogger, disk, stepId, clock))
         THEN Failed("setProgress", CliLogger, stepId, index)
         ELSE Did("setProgress", CliLogger, stepId, index, Void,
                  setLogForCurrentStepIndex(CliLogger, disk, stepId, index,
                                            clock))

DamagedRecordFailure ==
    /\ wiring = "damaged" /\ Writes < MaxWrites
    /\ \E stepId \in StoreStepIds, failureId \in FailureIds :
         IF IsNull(readStep(CliLogger, disk, stepId, clock))
         THEN Failed("recordFailure", CliLogger, stepId, failureId)
         ELSE Did("recordFailure", CliLogger, stepId, failureId, Void,
                  setLogForCurrentStepFails(CliLogger, disk, stepId,
                                            failureId, clock))

DamagedSetPayload ==
    /\ wiring = "damaged" /\ Writes < MaxWrites
    /\ \E stepId \in StoreStepIds, payload \in Payloads :
         IF IsNull(readStep(CliLogger, disk, stepId, clock))
         THEN Failed("setPayload", CliLogger, stepId, payload)
         ELSE Did("setPayload", CliLogger, stepId, payload, Void,
                  setStepPayload(CliLogger, disk, stepId, payload, clock))

DamagedGetLogByStep ==
    /\ wiring = "damaged"
    /\ \E stepId \in StoreStepIds :
         Did("getRecord", CliLogger, stepId, Void,
             getLogByStep(CliLogger, disk, stepId, clock), disk)

\* The values getAllLogs pushes onto `records` before it sorts them.
ParsedLogs(lg, d) ==
    LET relevant == SelectSeq(safeReadDir(d),
                        LAMBDA file : /\ startsWith(file, filePrefix(lg))
                                      /\ endsWith(file, <<".json">>)
                                      /\ d[file].json)
    IN  [k \in 1..Len(relevant) |-> d[relevant[k]].value]

HasNull(logs) == \E k \in DOMAIN logs : IsNull(logs[k])

\* The sort compares `a.updatedAt` with `b.updatedAt` once there are two
\* records to compare.
DamagedGetAllLogs ==
    /\ wiring = "damaged"
    /\ LET logs == ParsedLogs(CliLogger, disk)
       IN  IF HasNull(logs) /\ Len(logs) >= 2
           THEN Failed("getAllRecords", CliLogger, NoStep, Void)
           ELSE Did("getAllRecords", CliLogger, NoStep, Void,
                    getAllLogs(CliLogger, disk), disk)

\* `logs.filter((log) => log.index === 0)` reads a property of every log.
DamagedBuildRunnerState ==
    /\ wiring = "damaged"
    /\ \E currentStepId \in {NoStep} \cup StoreStepIds :
         IF HasNull(ParsedLogs(CliLogger, disk))
         THEN Failed("buildResumeState", CliLogger, NoStep, currentStepId)
         ELSE Did("buildResumeState", CliLogger, NoStep, currentStepId,
                  buildRunnerState(CliLogger, disk, currentStepId), disk)

\* ------------------------------------- the step log, concurrent writers
\* Two processes that log to the same directory under the same run id, each
\* performing one write operation on step A.
Writers == {"w1", "w2"}
RaceStep == "A"
RaceOps ==
    {[op |-> "recordFailure", arg |-> id] : id \in FailureIds}
    \cup {[op |-> "setProgress", arg |-> index] : index \in ProgressValues}

NoWriters == [w \in Writers |-> [pcw |-> "idle"]]

\* fs.writeFile(path, data) opens the file with flag 'w', which truncates it,
\* and then writes data from offset 0: the file is empty in between.
Truncated == [json |-> FALSE, value |-> ""]

\* The characters of JSON.stringify(record, null, 2) that vary between the
\* records of one step: the digits of index and the lines of fails.
Digits(n) == IF n < 10 THEN 1 ELSE 2

FailsSize(fails) ==
    IF fails = <<>> THEN 2 ELSE 4 + 7 * Len(fails)

Size(record) == Digits(record.index) + FailsSize(record.fails)

\* The length of a file, in the same unit.
SizeOf(content) ==
    IF content.json THEN Size(content.value)
    ELSE IF "size" \in DOMAIN content THEN content.size ELSE 0

\* Writing n characters of record at offset 0 of a file that holds content:
\* a longer content keeps its tail, and the file is then no JSON text.
Overwrite(content, record) ==
    IF SizeOf(content) > Size(record)
    THEN [json |-> FALSE, value |-> "torn", size |-> SizeOf(content)]
    ELSE [json |-> TRUE, value |-> record]

\* The record an operation holds after `await this.readStep(stepId)` and its
\* assignments, before `await this.writeStep(record)`.
Modified(o, d, now) ==
    LET after == IF o.op = "recordFailure"
                 THEN setLogForCurrentStepFails(CliLogger, d, RaceStep, o.arg, now)
                 ELSE setLogForCurrentStepIndex(CliLogger, d, RaceStep, o.arg, now)
    IN  readStep(CliLogger, after, RaceStep, now)

RaceIdle ==
    UNCHANGED <<configVars, runnerVars, invocations, aborted, lastOp, loopVars>>

\* setLogForCurrentStepIndex / setLogForCurrentStepFails up to writeStep.
RaceRead ==
    /\ wiring = "race"
    /\ \E w \in Writers, o \in RaceOps :
         /\ writers[w].pcw = "idle"
         /\ writers' = [writers EXCEPT ![w] =
                [pcw |-> "read", op |-> o.op, arg |-> o.arg,
                 record |-> Modified(o, disk, clock)]]
    /\ UNCHANGED <<disk, clock>>
    /\ RaceIdle

\* writeStep: fs.writeFile has opened the file.
RaceOpen ==
    /\ wiring = "race"
    /\ \E w \in Writers :
         /\ writers[w].pcw = "read"
         /\ LET path == buildFilePath(CliLogger, RaceStep)
            IN  disk' = [q \in DOMAIN disk \cup {path} |->
                            IF q = path THEN Truncated ELSE disk[q]]
         /\ writers' = [writers EXCEPT ![w].pcw = "open"]
    /\ UNCHANGED clock
    /\ RaceIdle

\* writeStep: fs.writeFile has written the text of the record.
RaceWrite ==
    /\ wiring = "race"
    /\ \E w \in Writers :
         /\ writers[w].pcw = "open"
         /\ LET path == buildFilePath(CliLogger, RaceStep)
            IN  disk' = [disk EXCEPT
                            ![path] = Overwrite(@, writers[w].record)]
         /\ writers' = [writers EXCEPT
                           ![w] = [pcw |-> "done", op |-> @.op, arg |-> @.arg,
                                   record |-> @.record, wrote |-> clock]]
    /\ clock' = clock + 1
    /\ RaceIdle

\* ------------------------------------------------------- specifications
Idle ==
    /\ pc = "idle" /\ entry = "none"
    /\ orderedSteps = <<>> /\ startIndex = 0 /\ i = 0 /\ at = "LOOP"
    /\ inflight = {} /\ error = NoError
    /\ completedSteps = <<>> /\ failedSteps = <<>>
    /\ result = [totalSteps |-> 0, completedSteps |-> <<>>, failedSteps |-> <<>>]
    /\ rejection = NoError
    /\ trace = <<>> /\ state = NoState
    /\ startStepId = NoStep /\ prior = NoAbort
    /\ context = NoContext
    /\ disk = <<>> /\ clock = 1
    /\ invocations = 0 /\ aborted = NoAbort
    /\ lastOp = NoOp
    /\ writers = NoWriters

HookSets == {{}, Hooks}

\* The runner used as a library: one run() or resume() on any pipeline.
Init ==
    /\ steps \in Pipelines
    /\ lifecycle \in HookSets
    /\ stepHooks \in HookSets
    /\ wiring = "lib"
    /\ Idle
    /\ NoController

Next == Run \/ Resume \/ Invoke \/ Returns \/ Throws

Spec == Init /\ [][Next]_vars

\* The command line: `run`, then `resume` on the same run id, for a pipeline
\* module that exports no lifecycle and whose steps define no hooks.
InitCli ==
    /\ steps \in Pipelines
    /\ lifecycle = {}
    /\ stepHooks = {}
    /\ wiring = "cli"
    /\ Idle
    /\ NoController

NextCli == CliRun \/ CliResume \/ Invoke \/ Returns \/ Throws

SpecCli == InitCli /\ [][NextCli]_vars

\* The step log used directly: any operations of the three loggers, one after
\* the other, on a log directory that starts empty.
InitStore ==
    /\ steps = <<>>
    /\ lifecycle = {}
    /\ stepHooks = {}
    /\ wiring = "store"
    /\ Idle
    /\ NoController

NextStore ==
    \/ SetProgress \/ RecordFailure \/ SetPayload \/ ClearStep \/ ClearAll
    \/ GetLogByStep \/ GetAllLogs \/ BuildRunnerState

SpecStore == InitStore /\ [][NextStore]_vars

\* A pipeline whose steps record their progress in the step log and which is
\* then resumed from the state the log builds:
\* runner.resume(await logger.buildRunnerState()).
ItemIndexes == {0, 1, 10}

LogProgress ==
    /\ wiring = "log" /\ pc = "idle" /\ Writes < MaxWrites
    /\ \E stepId \in Range(Ids(steps)), index \in ItemIndexes :
         Did("setProgress", CliLogger, stepId, index, Void,
             setLogForCurrentStepIndex(CliLogger, disk, stepId, index, clock))

ResumeFromLog ==
    /\ wiring = "log" /\ pc = "idle"
    /\ LET st == buildRunnerState(CliLogger, disk, NoStep)
       IN  /\ resume(st)
           /\ Enter("resume", st, NoStep)
    /\ UNCHANGED sideVars
    /\ UNCHANGED <<configVars, storeVars>>

InitLog ==
    /\ steps \in Pipelines
    /\ lifecycle = {}
    /\ stepHooks = {}
    /\ wiring = "log"
    /\ Idle
    /\ NoController

NextLog == LogProgress \/ ResumeFromLog \/ Invoke \/ Returns \/ Throws

SpecLog == InitLog /\ [][NextLog]_vars

\* The loop controller used directly: one controller, one loopDelay.
InitLoop ==
    /\ steps = <<>>
    /\ lifecycle = {}
    /\ stepHooks = {}
    /\ wiring = "loop"
    /\ Idle
    /\ \E isProduction \in BOOLEAN, maxItems \in {MaxItems, DEFAULT_MAX_ITEMS},
          getCurrentStepValue \in Accessors :
        Controller(isProduction, maxItems, getCurrentStepValue)

NextLoop == LoopDelay \/ Tick \/ Settle \/ Stop

SpecLoop == InitLoop /\ [][NextLoop]_vars

\* The same loop on which stop() is never called.  setInterval fires its
\* callback again and again until clearInterval (weak fairness of Tick), and
\* every item callback settles (weak fairness of Settle).
NextLoopRun == LoopDelay \/ Tick \/ Settle

SpecLoopRun ==
    /\ InitLoop
    /\ [][NextLoopRun]_vars
    /\ WF_vars(LoopDelay)
    /\ WF_vars(Tick)
    /\ WF_vars(Settle)


\* The step log over a directory whose files can be damaged.
InitDamaged ==
    /\ steps = <<>>
    /\ lifecycle = {}
    /\ stepHooks = {}
    /\ wiring = "damaged"
    /\ Idle
    /\ NoController

NextDamaged ==
    \/ Damage
    \/ DamagedSetProgress \/ DamagedRecordFailure \/ DamagedSetPayload
    \/ DamagedGetLogByStep \/ DamagedGetAllLogs \/ DamagedBuildRunnerState

SpecDamaged == InitDamaged /\ [][NextDamaged]_vars

\* Two writers of one run racing on the record of one step.
InitRace ==
    /\ steps = <<>>
    /\ lifecycle = {}
    /\ stepHooks = {}
    /\ wiring = "race"
    /\ Idle
    /\ NoController

NextRace == RaceRead \/ RaceOpen \/ RaceWrite

SpecRace == InitRace /\ [][NextRace]_vars

\* A loop that is interrupted and started again from its persisted position.
InitRestart ==
    /\ steps = <<>>
    /\ lifecycle = {}
    /\ stepHooks = {}
    /\ wiring = "restart"
    /\ Idle
    /\ Controller(TRUE, DEFAULT_MAX_ITEMS, <<>>)

NextRestart == LoopDelay \/ Tick \/ Settle \/ Stop \/ Restart

SpecRestart == InitRestart /\ [][NextRestart]_vars

\* ----------------------------------------------------------------- claims
\* The dependency relation as declared, and what it reaches.
Declared(ss) ==
    {<<ss[k].id, ss[k].dependencies[j]>> :
        <<k, j>> \in {<<k, j>> \in (1..Len(ss)) \X (1..Len(IdOrder)) :
                        j <= Len(ss[k].dependencies)}}

RECURSIVE Reaches(_, _)
Reaches(R, n) ==
    IF n = 0 THEN R
    ELSE Reaches(R \cup {<<x[1], y[2]>> : <<x, y>> \in
                            {<<x, y>> \in R \X R : x[2] = y[1]}}, n - 1)

AllDepsSupplied(ss) ==
    \A e \in Declared(ss) : e[2] \in Range(Ids(ss))

HasCycle(ss) ==
    \E s \in Range(Ids(ss)) : <<s, s>> \in Reaches(Declared(ss), Len(ss))

ValidDag(ss) == AllDepsSupplied(ss) /\ ~HasCycle(ss)

Entered == entry \in {"run", "resume"}

Calls(site) == SelectSeq(trace, LAMBDA e : e.ev = "call" /\ e.site = site)

\* The ids of the steps whose body was invoked, in invocation order.
BodyCalls == [k \in 1..Len(Calls("RUN")) |-> Calls("RUN")[k].step]

IsPrefix(s, t) == Len(s) <= Len(t) /\ s = SubSeq(t, 1, Len(s))

Threw(site) == \E n \in 1..Len(trace) : trace[n].ev = "throw" /\ trace[n].site = site

AnyThrow == \E n \in 1..Len(trace) : trace[n].ev = "throw"

\* C1: for a pipeline whose dependencies all name supplied steps and form no
\* cycle, resolution succeeds and orders the steps: every supplied step once,
\* each after all of its dependencies.
C1_ResolvesValidDag ==
    (Entered /\ ValidDag(steps)) =>
        /\ rejection.kind \notin {"missing-dependency", "circular-dependency"}
        /\ Len(orderedSteps) = Len(steps)
        /\ Range(orderedSteps) = Range(Ids(steps))
        /\ \A e \in Declared(steps) :
              IndexOf(orderedSteps, e[2]) < IndexOf(orderedSteps, e[1])

C1_Witness ==
    /\ pc = "returned"
    /\ Len(orderedSteps) = 3
    /\ orderedSteps # Ids(steps)
    /\ Cardinality(Declared(steps)) >= 2

\* C2: run() from the start, on a valid pipeline in any supply order: while it
\* executes the bodies invoked are a prefix of the resolved order, each once;
\* when it returns every body was invoked once, in that order, and the result
\* lists that order as completedSteps, no failedSteps and all steps as
\* totalSteps; it rejects only when a callback threw.
C2_RunExecutesResolvedOrder ==
    (entry = "run" /\ startStepId = NoStep /\ ValidDag(steps)) =>
        /\ IsPrefix(BodyCalls, orderedSteps)
        /\ pc = "returned" =>
              /\ BodyCalls = orderedSteps
              /\ result = [totalSteps |-> Len(steps),
                           completedSteps |-> orderedSteps,
                           failedSteps |-> <<>>]
        /\ pc = "rejected" => AnyThrow
        /\ (pc = "exec" /\ ~AnyThrow) => completedSteps = SubSeq(orderedSteps, 1, i)

C2_Witness ==
    /\ pc = "returned" /\ entry = "run" /\ startStepId = NoStep
    /\ Ids(steps) = <<"C", "A", "B">>
    /\ Declared(steps) = {<<"B", "A">>, <<"C", "B">>}
    /\ BodyCalls = <<"A", "B", "C">>
    /\ result.completedSteps = <<"A", "B", "C">>


\* The places of the trace where the body of the step at position k threw.
BodyThrows(k) ==
    {n \in 1..Len(trace) :
        trace[n].ev = "throw" /\ trace[n].site = "RUN" /\ trace[n].stepIndex = k}

ErrorOf(n) ==
    [kind |-> "thrown", site |-> trace[n].site, step |-> trace[n].step, n |-> n]

OnErrorThrew ==
    \E n \in 1..Len(trace) : trace[n].ev = "throw" /\ trace[n].hook = "onError"

\* The steps this invocation executed to completion before position k.
FinishedBefore(k) == SubSeq(orderedSteps, startIndex + 1, k)

SameStep(m, n) == trace[m].stepIndex = trace[n].stepIndex

FollowsReturnOf(n, level, hook) ==
    /\ n > 1
    /\ trace[n - 1].ev = "return"
    /\ trace[n - 1].level = level
    /\ trace[n - 1].hook = hook
    /\ SameStep(n - 1, n)

FirstOfStep(n) == \A m \in 1..(n - 1) : ~SameStep(m, n)

IsCall(n, level, hook) ==
    trace[n].ev = "call" /\ trace[n].level = level /\ trace[n].hook = hook

C4_HookProtocol ==
    \A n \in 1..Len(trace) :
        /\ (trace[n].ev = "call" /\ trace[n].level = "step"
                /\ trace[n].hook \in lifecycle)
              => FollowsReturnOf(n, "runner", trace[n].hook)
        /\ IsCall(n, "runner", "beforeStep") => FirstOfStep(n)
        /\ IsCall(n, "step", "beforeStep") =>
              (FirstOfStep(n) \/ FollowsReturnOf(n, "runner", "beforeStep"))
        /\ IsCall(n, "body", "run") =>
              CASE "beforeStep" \in stepHooks ->
                     FollowsReturnOf(n, "step", "beforeStep")
                [] "beforeStep" \in lifecycle ->
                     FollowsReturnOf(n, "runner", "beforeStep")
                [] OTHER -> FirstOfStep(n)
        /\ IsCall(n, "runner", "afterStep") => FollowsReturnOf(n, "body", "run")
        /\ IsCall(n, "step", "afterStep") =>
              IF "afterStep" \in lifecycle
              THEN FollowsReturnOf(n, "runner", "afterStep")
              ELSE FollowsReturnOf(n, "body", "run")
        /\ (trace[n].ev = "return" /\ trace[n].level = "body"
                /\ n < Len(trace)) =>
              CASE "afterStep" \in lifecycle -> IsCall(n + 1, "runner", "afterStep")
                [] "afterStep" \in stepHooks -> IsCall(n + 1, "step", "afterStep")
                [] OTHER -> ~SameStep(n, n + 1)
        /\ (trace[n].ev = "throw" /\ trace[n].level = "body") =>
              /\ n < Len(trace) =>
                    /\ SameStep(n, n + 1)
                    /\ IF "onError" \in lifecycle
                       THEN IsCall(n + 1, "runner", "onError")
                       ELSE IsCall(n + 1, "step", "onError")
              /\ \A m \in 1..Len(trace) :
                    SameStep(m, n) => trace[m].hook # "afterStep"

C4_Witness ==
    /\ lifecycle = Hooks /\ stepHooks = Hooks
    /\ pc = "rejected"
    /\ \E n \in 1..Len(trace) :
          /\ trace[n].ev = "return" /\ trace[n].level = "step"
          /\ trace[n].hook = "afterStep" /\ trace[n].stepIndex = 0
    /\ \E n \in 1..Len(trace) :
          /\ trace[n].ev = "return" /\ trace[n].level = "step"
          /\ trace[n].hook = "onError" /\ trace[n].stepIndex = 1
    /\ BodyThrows(1) # {}

\* C5: steps run strictly one after another.  At most one call is in flight;
\* a call starts only after the call before it settled; the trace never goes
\* back to an earlier step; and the first call of a step follows the return
\* of the last callback of the step before it.
C5_StrictlySequential ==
    /\ Cardinality(inflight) <= 1
    /\ \A n \in 2..Len(trace) :
          /\ trace[n].ev = "call" => trace[n - 1].ev \in {"return", "throw"}
          /\ trace[n].ev # "call" =>
                /\ trace[n - 1].ev = "call"
                /\ trace[n - 1].site = trace[n].site
                /\ SameStep(n - 1, n)
          /\ trace[n - 1].stepIndex <= trace[n].stepIndex
          /\ ~SameStep(n - 1, n) =>
                /\ trace[n].stepIndex = trace[n - 1].stepIndex + 1
                /\ trace[n - 1].ev = "return"
                /\ trace[n - 1].hook \in {"run", "afterStep"}
                /\ trace[n].ev = "call"
    /\ Len(trace) >= 1 => trace[1].ev = "call"

C5_Witness ==
    /\ pc = "exec" /\ i = 1 /\ at = "RUN"
    /\ lifecycle = Hooks /\ stepHooks = Hooks
    /\ \E c \in inflight : c.site = "RUN" /\ c.stepIndex = startIndex + 1
    /\ trace[Len(trace)].ev = "call"


NothingInvoked == trace = <<>> /\ orderedSteps = <<>> /\ pc = "rejected"

\* C6 as claimed: a pipeline with a dependency cycle makes run()/resume() fail
\* with the circular-dependency error, nothing being invoked.
C6_AsClaimed ==
    (Entered /\ HasCycle(steps)) =>
        NothingInvoked /\ rejection.kind = "circular-dependency"

\* C6 amended: a pipeline with a dependency cycle makes run()/resume() fail
\* with nothing invoked and no ordering produced; the error is the
\* circular-dependency error when every declared dependency names a supplied
\* step, and the missing-dependency error otherwise.
C6_CycleFailsResolution ==
    (Entered /\ HasCycle(steps)) =>
        /\ NothingInvoked
        /\ rejection.kind = IF AllDepsSupplied(steps)
                            THEN "circular-dependency"
                            ELSE "missing-dependency"

C6_Witness ==
    /\ entry = "resume" /\ pc = "rejected"
    /\ rejection.kind = "circular-dependency"
    /\ Len(steps) = 3
    /\ <<"A", "A">> \notin Declared(steps)
    /\ HasCycle(steps)
    /\ trace = <<>>

\* C7: a dependency that names no supplied step makes run()/resume() fail
\* with a missing-dependency error naming such a dependency and the step that
\* declares it, nothing being invoked.
C7_MissingDependencyFails ==
    (Entered /\ ~AllDepsSupplied(steps)) =>
        /\ NothingInvoked
        /\ rejection.kind = "missing-dependency"
        /\ rejection.dep \notin Range(Ids(steps))
        /\ <<rejection.step, rejection.dep>> \in Declared(steps)

C7_Witness ==
    /\ entry = "run" /\ pc = "rejected"
    /\ rejection.kind = "missing-dependency"
    /\ rejection.dep = MissingId
    /\ Len(steps) >= 2
    /\ trace = <<>>

\* C8: resume(state) at a valid stepIndex executes the steps of the resolved
\* order from that position on, one position after the other: the first call
\* is for position stepIndex, every call is for the step at its position, the
\* position never drops and never jumps, and a resume that returns has invoked
\* the body of every step from stepIndex to the last, in that order.
C8_ResumeRunsTail ==
    (entry = "resume" /\ ValidDag(steps)
        /\ state.stepIndex \in 0..(Len(steps) - 1)) =>
        /\ orderedSteps = resolveDependencies(steps).order
        /\ \A n \in 1..Len(trace) :
              /\ trace[n].stepIndex >= state.stepIndex
              /\ trace[n].stepIndex < Len(orderedSteps)
              /\ trace[n].step = orderedSteps[trace[n].stepIndex + 1]
              /\ n = 1 => trace[n].stepIndex = state.stepIndex
              /\ n > 1 => trace[n].stepIndex - trace[n - 1].stepIndex \in {0, 1}
        /\ IsPrefix(BodyCalls,
                    SubSeq(orderedSteps, state.stepIndex + 1, Len(orderedSteps)))
        /\ pc = "returned" =>
              BodyCalls = SubSeq(orderedSteps, state.stepIndex + 1,
                                 Len(orderedSteps))

C8_Witness ==
    /\ entry = "resume" /\ pc = "returned"
    /\ state.stepIndex = 1
    /\ Len(orderedSteps) = 3
    /\ orderedSteps # Ids(steps)
    /\ BodyCalls = <<orderedSteps[2], orderedSteps[3]>>

\* C9: resume(state) on a pipeline that resolves, with stepIndex below 0 or
\* not below the number of steps, fails with the invalid-step-index error and
\* invokes nothing.
C9_InvalidStepIndex ==
    (entry = "resume" /\ ValidDag(steps)
        /\ (state.stepIndex < 0 \/ state.stepIndex >= Len(steps))) =>
        /\ pc = "rejected"
        /\ rejection = [kind |-> "invalid-step-index", index |-> state.stepIndex]
        /\ trace = <<>>

C9_Witness ==
    /\ entry = "resume" /\ pc = "rejected"
    /\ rejection.kind = "invalid-step-index"
    /\ Len(steps) = 2
    /\ state.stepIndex = Len(steps)

\* C10: on the command line, after a run that aborted because the body of the
\* step at position k threw, a resume without --start-step starts at that
\* step: it executes no step before position k.
C10_ResumeStartsAtFailedStep ==
    (wiring = "cli" /\ entry = "resume" /\ startStepId = NoStep /\ prior.body) =>
        /\ rejection.kind # "invalid-step-index"
        /\ startIndex = prior.pos
        /\ \A n \in 1..Len(trace) : trace[n].stepIndex >= prior.pos

\* The run of C10 that goes wrong: C, A (depending on B) and B are supplied in
\* that order and resolve to C, B, A; the body of B fails at position 1; the
\* resume starts at position 2, the place of B among the supplied steps, and
\* invokes the body of A.
C10_Witness ==
    /\ wiring = "cli" /\ entry = "resume" /\ startStepId = NoStep
    /\ Ids(steps) = <<"C", "A", "B">>
    /\ orderedSteps = <<"C", "B", "A">>
    /\ prior = [pos |-> 1, step |-> "B", body |-> TRUE]
    /\ startIndex = 2
    /\ BodyCalls = <<"A">>


\* ------------------------------------------------- claims on the step log
Op(name) == lastOp.op = name

\* The record of the step of the last operation as its logger reads it, in the
\* log directory d.
Seen(d) == readStep(lastOp.lg, d, lastOp.stepId, 0)

\* The files of the log directory other than the one of the step operated on.
OtherFiles(d) == DOMAIN d \ {buildFilePath(lastOp.lg, lastOp.stepId)}

OthersUnchanged ==
    /\ OtherFiles(disk) = OtherFiles(lastOp.before)
    /\ \A q \in OtherFiles(disk) : disk[q] = lastOp.before[q]

SetProgressEffect ==
    /\ Seen(disk).index = lastOp.arg
    /\ Seen(disk).stepId = lastOp.stepId
    /\ lastOp.arg = 0 => Seen(disk).fails = <<>>
    /\ lastOp.arg > 0 => Seen(disk).fails = Seen(lastOp.before).fails
    /\ OthersUnchanged

\* C11 as claimed: setProgress(stepId, index), through any store, leaves the
\* step's record with the given index, with fails empty when the index is 0
\* and untouched otherwise, and leaves the other records alone.
C11_AsClaimed == Op("setProgress") => SetProgressEffect

\* C11 amended: that is the effect of setProgress through a store that
\* persists; through a store that persists in production only and is not in
\* production, setProgress changes nothing.
C11_SetProgress ==
    Op("setProgress") =>
        IF shouldPersist(lastOp.lg) THEN SetProgressEffect
        ELSE disk = lastOp.before

C11_Witness ==
    /\ Op("setProgress") /\ lastOp.lg = Persisting(R1)
    /\ lastOp.stepId = "A" /\ lastOp.arg = 10
    /\ Seen(lastOp.before).fails = <<2>>
    /\ Seen(disk) = [stepId |-> "A", index |-> 10, fails |-> <<2>>,
                     updatedAt |-> lastOp.now]

RecordFailureEffect ==
    /\ Seen(disk).fails = Append(Seen(lastOp.before).fails, lastOp.arg)
    /\ Seen(disk).index = Seen(lastOp.before).index
    /\ OthersUnchanged

\* C12 as claimed: recordFailure(stepId, failureId), through any store, leaves
\* the step's fails as they were followed by the new id, and its index as it
\* was.
C12_AsClaimed == Op("recordFailure") => RecordFailureEffect

\* C12 amended: that is the effect of recordFailure through a store that
\* persists (so a sequence of calls leaves the earlier fails followed by the
\* ids in call order, duplicates kept); through a store that persists in
\* production only and is not in production, recordFailure changes nothing.
C12_RecordFailure ==
    Op("recordFailure") =>
        IF shouldPersist(lastOp.lg) THEN RecordFailureEffect
        ELSE disk = lastOp.before

C12_Witness ==
    /\ Op("recordFailure") /\ lastOp.lg = Persisting(R1)
    /\ lastOp.arg = 1
    /\ Seen(lastOp.before).fails = <<1>>
    /\ Seen(disk).fails = <<1, 1>>

\* C13: getRecord(stepId) for a step without a persisted record returns the
\* default record of that step, index 0 and no fails, and creates no record.
C13_GetRecordDefault ==
    (Op("getRecord")
        /\ buildFilePath(lastOp.lg, lastOp.stepId) \notin DOMAIN lastOp.before) =>
        /\ lastOp.value.stepId = lastOp.stepId
        /\ lastOp.value.index = 0
        /\ lastOp.value.fails = <<>>
        /\ disk = lastOp.before

C13_Witness ==
    /\ Op("getRecord") /\ lastOp.lg = Persisting(R1) /\ lastOp.stepId = "B"
    /\ DOMAIN disk = {buildFilePath(Persisting(R1), "A")}
    /\ lastOp.value = DefaultRecord("B", lastOp.now)

\* The records of the run of the last operation: those in the files named
\* after the run id and a step id.
OwnFiles(lg) == {buildFilePath(lg, stepId) : stepId \in StoreStepIds}

OwnRecords(d) ==
    {d[q].value : q \in OwnFiles(lastOp.lg) \cap DOMAIN d}

\* The files of another run that the prefix of the run matches.
Foreign(lg, d) ==
    {q \in DOMAIN d \ OwnFiles(lg) :
        startsWith(q, filePrefix(lg)) /\ endsWith(q, <<".json">>)}

Latest(records) ==
    {r \in records : \A o \in records : o.updatedAt <= r.updatedAt}

InProgressRecords(records) == {r \in records : r.index > 0}

\* C14: buildResumeState() of a run, no record of another run being in its
\* way.  Without records: currentStepId "" and stepIndex 0.  Without an
\* explicit step id: the most recently updated record in progress, failing
\* that the most recently updated record.  With one: that step.  stepIndex
\* is the index stored in the record of the current step.
C14_BuildResumeState ==
    (Op("buildResumeState") /\ Foreign(lastOp.lg, disk) = {}) =>
        LET records == OwnRecords(disk)
            candidates == IF InProgressRecords(records) # {}
                          THEN InProgressRecords(records) ELSE records
            current == {r \in records : r.stepId = lastOp.value.currentStepId}
        IN  /\ (records = {} /\ lastOp.arg = NoStep) =>
                 /\ lastOp.value.currentStepId = ""
                 /\ lastOp.value.stepIndex = 0
            /\ (records # {} /\ lastOp.arg = NoStep) =>
                 lastOp.value.currentStepId \in
                     {r.stepId : r \in Latest(candidates)}
            /\ lastOp.arg # NoStep => lastOp.value.currentStepId = lastOp.arg
            /\ \A r \in current : lastOp.value.stepIndex = r.index
            /\ current = {} => lastOp.value.stepIndex = 0

C14_Witness ==
    /\ Op("buildResumeState") /\ lastOp.lg = Persisting(R1)
    /\ lastOp.arg = NoStep
    /\ {[stepId |-> r.stepId, index |-> r.index] : r \in OwnRecords(disk)}
          = {[stepId |-> "A", index |-> 0], [stepId |-> "B", index |-> 10]}
    /\ lastOp.value.currentStepId = "B"
    /\ lastOp.value.stepIndex = 10

\* The log directory without the files of other runs.
OwnOnly(lg, d) == [q \in DOMAIN d \cap OwnFiles(lg) |-> d[q]]

\* C15: the records of different runs in one log directory are isolated.  An
\* operation through the store of a run leaves the files of the other run as
\* they are, and returns what it would return were they not there: only
\* records of its own run.
C15_RunsIsolated ==
    ~Op("none") =>
        LET lg == lastOp.lg
            before == lastOp.before
        IN  /\ DOMAIN disk \ OwnFiles(lg) = DOMAIN before \ OwnFiles(lg)
            /\ \A q \in DOMAIN disk \ OwnFiles(lg) : disk[q] = before[q]
            /\ Op("getAllRecords") =>
                  lastOp.value = getAllLogs(lg, OwnOnly(lg, before))
            /\ Op("buildResumeState") =>
                  lastOp.value =
                      buildRunnerState(lg, OwnOnly(lg, before), lastOp.arg)

\* Run "r" deletes the record of step A of run "r-1".
C15_Witness ==
    /\ Op("clearRun") /\ lastOp.lg = Persisting(R1)
    /\ DOMAIN lastOp.before = {buildFilePath(Persisting(R2), "A")}
    /\ disk = <<>>

\* C16: a store that persists in production only and is not in production
\* writes nothing and reads defaults, whatever the log directory holds under
\* its run id.
C16_DevStoreInert ==
    (~Op("none") /\ ~shouldPersist(lastOp.lg)) =>
        /\ disk = lastOp.before
        /\ Op("getRecord") =>
              /\ lastOp.value.index = 0
              /\ lastOp.value.fails = <<>>
        /\ Op("getAllRecords") => lastOp.value = <<>>
        /\ (Op("buildResumeState") /\ lastOp.arg = NoStep) =>
              lastOp.value = NoState

\* The store of a development run reads the record a production run of the
\* same run id left behind.
C16_Witness ==
    /\ Op("getRecord") /\ lastOp.lg = DevLogger(R1) /\ lastOp.stepId = "A"
    /\ lastOp.value.index = 10
    /\ lastOp.value.fails = <<2>>

\* ------------------------------------------------ claims on the loop controller

LoopCalls(name) == {k \in DOMAIN events : events[k][1] = name}

Visited == {events[k][2] : k \in LoopCalls("todo")}

TimesVisited(n) == Cardinality({k \in LoopCalls("todo") : events[k][2] = n})

Captured(n) == Cardinality({k \in DOMAIN getFailures : getFailures[k].index = n})

\* The indices whose item callback has settled.
Settled == {events[k][2] : k \in LoopCalls("progress") \cup LoopCalls("failure")}

\* Every item callback finished before the next tick: no tick comes between
\* the call of an item callback and what its own tick does after the await.
Sequential ==
    \A k \in LoopCalls("todo") :
        k < Len(events) => events[k + 1][1] \in {"persist", "failure", "stop"}

\* stop() was called while the timer was on.
Stopped == \E k \in LoopCalls("stop") : events[k][2]

\* The bound after the cap, before any resume adjustment.
EffectiveBound == Capped(ctl, ctl.limit)

FromZero == loop.intervalId # "none" /\ ctl.i = 0 /\ ~Resuming(ctl)

\* C17: in a loop started at index 0 with effective bound B whose item
\* callback fails for the indices in F, each callback finishing before the
\* next tick: exactly one failure is captured for every index of F whose
\* callback has settled and none for any other index, the completion callback
\* is invoked at most once, and when it has been invoked the item callback
\* has been invoked exactly once for every index 0..B and for no other, with
\* one failure for each index of F in 0..B.
C17_FailuresIsolated ==
    (FromZero /\ Sequential) =>
        /\ \A n \in 0..(MaxLimit + 1) :
            Captured(n) = IF n \in ctl.failing \cap Settled THEN 1 ELSE 0
        /\ Len(getFailures) = Cardinality(ctl.failing \cap Settled)
        /\ Cardinality(LoopCalls("done")) <= 1
        /\ LoopCalls("done") # {} =>
            /\ Visited = 0..EffectiveBound
            /\ \A n \in 0..EffectiveBound : TimesVisited(n) = 1
            /\ pending = <<>> => Settled = 0..EffectiveBound

\* The spec's example at the size of the model: the largest bound, failing at
\* index 2 only: every index attempted, one failure for index 2, one
\* completion.
C17_Witness ==
    /\ FromZero /\ Sequential
    /\ EffectiveBound = MaxLimit
    /\ ctl.failing = {2}
    /\ Visited = 0..MaxLimit
    /\ [k \in DOMAIN getFailures |-> getFailures[k].index] = <<2>>
    /\ Cardinality(LoopCalls("done")) = 1

\* C18: on a loop on which stop() is never called, whose item callbacks all
\* settle and whose timer fires fairly, once loopDelay has started the timer
\* the loop eventually has stopped ticking and has invoked the completion
\* callback, whatever set of indices fails.
C18_LoopCompletes ==
    (loop.intervalId = "on") ~>
        (loop.intervalId = "cleared" /\ LoopCalls("done") # {} /\ pending = <<>>)

\* A loop in which every item failed, completed.
C18_Witness ==
    /\ loop.intervalId = "cleared"
    /\ LoopCalls("done") # {}
    /\ EffectiveBound >= 2
    /\ FromZero
    /\ Len(getFailures) >= EffectiveBound + 1

\* The position the accessor reports.
Position == ctl.getCurrentStepValue[1]

\* C19 (as claimed): when the accessor reports a position p with 0 < p <= B,
\* B the effective bound, the loop starts at p, and once it has completed,
\* every callback having finished before the next tick, the item callback
\* has been invoked for exactly the indices p..B.
C19_ResumeInPlace ==
    (/\ loop.intervalId # "none"
     /\ Resuming(ctl)
     /\ Position <= EffectiveBound
     /\ Sequential) =>
        /\ loop.startIndex = Position
        /\ LoopCalls("done") # {} => Visited = Position..EffectiveBound

\* A loop of effective bound MaxLimit resumed at position MaxLimit completes
\* without having invoked the item callback at all.
C19_Witness ==
    /\ Resuming(ctl)
    /\ EffectiveBound = MaxLimit
    /\ Position = MaxLimit
    /\ LoopCalls("done") # {}
    /\ Visited = {}

\* C20: the completion callback is invoked only by a tick that found the
\* current index greater than the bound, and that tick has stopped the timer,
\* then called the persist callback with 0, then called the completion
\* callback with the item list, in that order; no item callback is started
\* after it; the completion callback is invoked at most once in a loop, and
\* exactly once when the timer was stopped otherwise than by stop().
C20_Completion ==
    /\ Cardinality(LoopCalls("done")) <= 1
    /\ \A k \in LoopCalls("done") :
        /\ k >= 3
        /\ events[k - 2] = <<"clearInterval">>
        /\ events[k - 1] = <<"persist", 0>>
        /\ events[k] = <<"done", list>>
        /\ loop.intervalId = "cleared"
        /\ loop.currentIndex > loop.adjustedLimit
        /\ \A j \in LoopCalls("todo") : j < k
    /\ LoopCalls("clearInterval") # {} => LoopCalls("done") # {}
    /\ (loop.intervalId = "cleared" /\ ~Stopped) => LoopCalls("done") # {}
    /\ Stopped => LoopCalls("done") = {}

\* A loop that visited several indices and completed.
C20_Witness ==
    /\ LoopCalls("done") # {}
    /\ Cardinality(Visited) >= 2
    /\ loop.intervalId = "cleared"
    /\ pending = <<>>

\* C21: within one loop, for any timing of callbacks, ticks and stop(), each
\* invocation of the item callback receives an index greater than or equal to
\* the index of every invocation started before it.
C21_IndexNeverGoesBack ==
    \A j, k \in LoopCalls("todo") : j < k => events[j][2] <= events[k][2]

\* Ticks that overlapped a running callback, over several indices.
C21_Witness ==
    /\ ~Sequential
    /\ Cardinality(Visited) >= 2
    /\ Cardinality(LoopCalls("todo")) >= 3

Min(a, b) == IF a < b THEN a ELSE b

\* C22: outside production the item callback is never invoked with an index
\* greater than min(limit, maxItems), whatever the start index, the resume
\* position and the interleaving of ticks; in production it is never invoked
\* with an index greater than limit, and a loop from 0 whose callbacks each
\* finish before the next tick has visited every index 0..limit when it
\* completes, also above maxItems.
C22_SafetyCap ==
    /\ \A k \in LoopCalls("todo") :
        events[k][2] <= IF ctl.isProduction THEN ctl.limit
                        ELSE Min(ctl.limit, ctl.maxItems)
    /\ (ctl.isProduction /\ FromZero /\ Sequential /\ LoopCalls("done") # {}) =>
        Visited = 0..ctl.limit

\* Outside production, a limit above maxItems: the loop completed having
\* visited 0..maxItems only.
C22_Witness ==
    /\ ~ctl.isProduction
    /\ ctl.limit > ctl.maxItems
    /\ FromZero
    /\ LoopCalls("done") # {}
    /\ Visited = 0..ctl.maxItems

\* A step in which stop() is called.
StopStep ==
    /\ Len(events') = Len(events) + 1
    /\ events'[Len(events')][1] = "stop"

\* C23: a stop() that finds the timer on clears it and does nothing else;
\* after it no item callback is started, the completion callback is not
\* invoked and the persist callback is called only by item callbacks that were
\* already running (never to reset the index); a stop() that finds no timer
\* (a second stop(), before any loop, after completion) changes nothing.
C23_StopCancels ==
    /\ [](\A k \in LoopCalls("stop") : events[k][2] =>
            /\ loop.intervalId = "cleared"
            /\ \A j \in (k + 1)..Len(events) :
                /\ events[j][1] \notin {"todo", "done", "clearInterval"}
                /\ events[j][1] = "persist" =>
                    /\ j < Len(events)
                    /\ events[j + 1][1] = "progress"
                    /\ events[j + 1][2] = events[j][2])
    /\ [][StopStep =>
            /\ events'[Len(events')][2] = (loop.intervalId = "on")
            /\ pending' = pending
            /\ ctl' = ctl
            /\ loop' = IF loop.intervalId = "on"
                       THEN [loop EXCEPT !.intervalId = "cleared"]
                       ELSE loop]_vars

\* A loop stopped with indices left to visit and a callback running, which
\* then settled; stop() was called again.
C23_Witness ==
    /\ Stopped
    /\ <<"stop", FALSE>> = events[Len(events)]
    /\ LoopCalls("progress") # {}
    /\ \E k \in LoopCalls("stop") : events[k][2] /\ events[k - 1][1] = "todo"
    /\ loop.currentIndex <= loop.adjustedLimit
    /\ pending = <<>>

\* ------------------------------------------------ further claims on the runner

BodyCallsOf(s) ==
    SelectSeq(trace, LAMBDA e : e.ev = "call" /\ e.site = "RUN" /\ e.step = s)

BodyFailed(s) ==
    \E k \in DOMAIN trace :
        trace[k].ev = "throw" /\ trace[k].site = "RUN" /\ trace[k].step = s

OnErrorCalls(level, s) ==
    Len(SelectSeq(trace, LAMBDA e : /\ e.ev = "call"
                                    /\ e.hook = "onError"
                                    /\ e.level = level
                                    /\ e.step = s))

\* C27 (as claimed): when an invocation has been rejected because the body of
\* a step failed, the runner-level onError hook, if there is one, was called
\* exactly once for that step and the step-level onError hook, if there is
\* one, exactly once; under the command line's wiring the step's record has
\* then gained exactly one failure marker (in the first invocation on an
\* empty log directory: it has exactly one).
C27_OnErrorOncePerFailure ==
    pc = "rejected" =>
        \A s \in StepIds : BodyFailed(s) =>
            /\ OnErrorCalls("runner", s) = IF Present("XRE") THEN 1 ELSE 0
            /\ OnErrorCalls("step", s) = IF Present("XSE") THEN 1 ELSE 0
            /\ (wiring = "cli" /\ invocations = 1) =>
                Len(readStep(CliLogger, disk, s, clock).fails) = 1

\* `scrapar run` rejected by the failing body of a step whose record then
\* carries two failure markers, the runner-level onError having been called
\* twice.
C27_Witness ==
    /\ wiring = "cli" /\ invocations = 1 /\ pc = "rejected"
    /\ \E s \in StepIds :
        /\ BodyFailed(s)
        /\ OnErrorCalls("runner", s) = 2
        /\ Len(readStep(CliLogger, disk, s, clock).fails) = 2

\* The steps whose body is executing.
Executing == {c.step : c \in {d \in inflight : d.site = "RUN"}}

\* C30 (as claimed): under the command line's wiring, while the body of a
\* step is executing (its beforeStep hooks done, its afterStep and onError
\* hooks not started) the step's persisted record has index greater than 0,
\* the first step of the pipeline included.
C30_InProgressIndexPositive ==
    wiring = "cli" =>
        \A s \in Executing : readStep(CliLogger, disk, s, clock).index > 0

\* The body of the first step is executing and its record, written by the
\* composed beforeStep hook, has index 0.
C30_Witness ==
    /\ wiring = "cli"
    /\ \E c \in inflight :
        /\ c.site = "RUN"
        /\ c.stepIndex = 0
        /\ buildFilePath(CliLogger, c.step) \in DOMAIN disk
        /\ readStep(CliLogger, disk, c.step, clock).index = 0

\* The body of step s returned before the k-th event of the invocation.
ReturnedBefore(s, k) ==
    \E j \in 1..(k - 1) :
        trace[j].ev = "return" /\ trace[j].site = "RUN" /\ trace[j].step = s

\* C25: every callback of one invocation (step bodies and hooks) is handed the
\* one context of that invocation; what the body of a step wrote to
\* context.data is there for every callback called after it returned; and
\* context.data holds nothing else than the payload the invocation was
\* resumed with and what the bodies of this invocation wrote: nothing of an
\* earlier invocation.
C25_SharedFreshContext ==
    \A k \in DOMAIN trace :
        /\ trace[k].context = context.id
        /\ \A s \in StepIds :
            ReturnedBefore(s, k) =>
                /\ s \in DOMAIN trace[k].data
                /\ trace[k].data[s] = [by |-> s, in |-> context.id]
        /\ \A key \in DOMAIN trace[k].data :
            ~ReturnedBefore(key, k) =>
                /\ key \in DOMAIN state.payload
                /\ trace[k].data[key] = state.payload[key]

\* A second invocation on the same runner configuration, after a first one
\* whose steps had written to their context: its first callback sees empty
\* data, a later step sees what this invocation's earlier step wrote.
C25_Witness ==
    /\ invocations = 2 /\ entry = "resume"
    /\ prior.pos >= 1
    /\ Len(trace) >= 1
    /\ DOMAIN trace[1].data = {}
    /\ \E k \in DOMAIN trace :
        /\ trace[k].ev = "call" /\ trace[k].site = "RUN"
        /\ \E s \in DOMAIN trace[k].data : trace[k].data[s].in = 2

FirstBodyCall ==
    {k \in DOMAIN trace :
        /\ trace[k].ev = "call" /\ trace[k].site = "RUN"
        /\ \A j \in 1..(k - 1) : ~(trace[j].ev = "call" /\ trace[j].site = "RUN")}

\* C26: when the body of the first step of a resume(state) starts,
\* context.data maps every key of state.payload to its payload value; in a
\* run() the first callback and the first body start with empty context.data.
C26_ResumeSeedsData ==
    /\ entry = "resume" =>
        \A k \in FirstBodyCall : \A key \in DOMAIN state.payload :
            /\ key \in DOMAIN trace[k].data
            /\ trace[k].data[key] = state.payload[key]
    /\ entry = "run" =>
        \A k \in FirstBodyCall \cup ({1} \cap DOMAIN trace) :
            DOMAIN trace[k].data = {}

\* resume() with a payload of two keys, its first body started after a hook.
C26_Witness ==
    /\ entry = "resume"
    /\ state.payload = SavedPayload
    /\ \E k \in FirstBodyCall :
        /\ k > 1
        /\ DOMAIN trace[k].data = {"A", "saved"}
        /\ trace[k].data["saved"] = [from |-> "saved"]

\* C29 (as claimed): the stepIndex of the state buildResumeState builds is the
\* position of its currentStepId in the resolved order, so that resume() of
\* that state is accepted and the first body it invokes is that of
\* currentStepId.
C29_StepIndexIsOrdinal ==
    (/\ wiring = "log" /\ entry = "resume"
     /\ ValidDag(steps)
     /\ state.currentStepId \in Range(Ids(steps))) =>
        /\ state.stepIndex =
               IndexOf(resolveDependencies(steps).order, state.currentStepId) - 1
        /\ pc # "rejected" \/ rejection.kind # "invalid-step-index"
        /\ \A k \in FirstBodyCall : trace[k].step = state.currentStepId

\* The log holds step B at item 10 of its own iteration: the state built
\* from it names B with stepIndex 10 and resume() rejects it.
C29_Witness ==
    /\ wiring = "log" /\ entry = "resume"
    /\ ValidDag(steps)
    /\ state.currentStepId = "B"
    /\ "B" \in Range(Ids(steps))
    /\ state.stepIndex = 10
    /\ pc = "rejected"
    /\ rejection = [kind |-> "invalid-step-index", index |-> 10]

\* C28 (as claimed): in a loop that does not resume, whatever the timing of
\* ticks and callbacks, no index is handed to the item callback twice, and
\* when the loop has completed and every callback has settled each index from
\* the start index to the bound was handed to it exactly once.
C28_EachIndexOnce ==
    (loop.intervalId # "none" /\ ~Resuming(ctl)) =>
        /\ \A n \in 0..MaxLimit : TimesVisited(n) <= 1
        /\ (LoopCalls("done") # {} /\ pending = <<>>) =>
            \A n \in ctl.i..EffectiveBound : TimesVisited(n) = 1

\* A tick fired while the callback of index 0 was running: index 0 was handed
\* out twice, index 1 never, and the loop completed.
C28_Witness ==
    /\ FromZero
    /\ EffectiveBound >= 1
    /\ TimesVisited(0) = 2
    /\ 1 \notin Visited
    /\ LoopCalls("done") # {}
    /\ pending = <<>>

\* C32 (as claimed): after the completion callback was invoked, the loop makes
\* no further call of the persist, progress or failure callback.
C32_QuietAfterCompletion ==
    \A k \in LoopCalls("done") : \A j \in (k + 1)..Len(events) :
        events[j][1] \notin {"persist", "progress", "failure"}

\* Two ticks handed out the last index; the first callback settled, the next
\* tick completed the loop (persist 0, done), then the second callback
\* settled and persisted a positive index.
C32_Witness ==
    /\ LoopCalls("done") # {}
    /\ pending = <<>>
    /\ Len(events) >= 2
    /\ events[Len(events) - 1][1] = "persist"
    /\ events[Len(events) - 1][2] > 0
    /\ \E k \in LoopCalls("done") : k < Len(events) - 1

\* The steps this invocation added to failedSteps.
NewlyFailed ==
    SubSeq(failedSteps, Len(state.failedStepIds) + 1, Len(failedSteps))

OnErrorFiredFor(s) ==
    \E k \in DOMAIN trace :
        trace[k].ev = "call" /\ trace[k].hook = "onError" /\ trace[k].step = s

\* C33 (as claimed): an invocation adds a step to failedSteps, and calls
\* onError hooks for it, only if the body of that step threw.
C33_FailedOnlyIfBodyThrew ==
    Entered =>
        \A s \in StepIds :
            (s \in Range(NewlyFailed) \/ OnErrorFiredFor(s)) => BodyFailed(s)

\* The body of a step returned, a hook of the step then threw: the step is in
\* failedSteps and an onError hook was called for it.
C33_Witness ==
    /\ Entered
    /\ \E s \in StepIds :
        /\ \E k \in DOMAIN trace :
            trace[k].ev = "return" /\ trace[k].site = "RUN" /\ trace[k].step = s
        /\ \E k \in DOMAIN trace :
            trace[k].ev = "throw" /\ trace[k].hook = "afterStep" /\ trace[k].step = s
        /\ ~BodyFailed(s)
        /\ s \in Range(NewlyFailed)
        /\ OnErrorFiredFor(s)

Occurrences(q, x) == Cardinality({k \in DOMAIN q : q[k] = x})

\* C34 (as claimed): the RunResult a resume() returns has in completedSteps
\* exactly the steps executed by that invocation, in execution order, each
\* once, and in failedSteps only steps whose body threw in that invocation.
C34_ResumeResultOfInvocation ==
    (entry = "resume" /\ pc = "returned") =>
        /\ result.completedSteps = BodyCalls
        /\ \A s \in StepIds : Occurrences(result.completedSteps, s) <= 1
        /\ \A s \in Range(result.failedSteps) : BodyFailed(s)

\* resume() of a state that names A completed and B failed, from index 0 of a
\* pipeline that has both: it returns with A listed twice and B listed as
\* failed although B's body returned.
C34_Witness ==
    /\ entry = "resume" /\ pc = "returned"
    /\ Occurrences(result.completedSteps, "A") = 2
    /\ "B" \in Range(BodyCalls)
    /\ result.failedSteps = <<"B">>
    /\ ~BodyFailed("B")

\* Step s lies on a dependency cycle; step s cannot be resolved: it lies on a
\* cycle or depends, directly or not, on a step that does.
OnCycle(ss, s) == <<s, s>> \in Reaches(Declared(ss), Len(ss))

Stuck(ss, s) ==
    \E c \in Range(Ids(ss)) :
        /\ OnCycle(ss, c)
        /\ (s = c \/ <<s, c>> \in Reaches(Declared(ss), Len(ss)))

CircularError == Entered /\ pc = "rejected" /\ rejection.kind = "circular-dependency"

\* C35 (as claimed): the steps the circular-dependency error lists are
\* exactly the steps that lie on some dependency cycle.
C35_AsClaimed ==
    CircularError =>
        Range(rejection.ids) = {s \in Range(Ids(steps)) : OnCycle(steps, s)}

\* C35 amended: the steps the circular-dependency error lists are exactly the
\* steps that lie on a dependency cycle or depend, directly or through other
\* steps, on a step that does; they are listed once each, in supplied order.
C35_ListsUnresolvedSteps ==
    CircularError =>
        rejection.ids = SelectSeq(Ids(steps), LAMBDA s : Stuck(steps, s))

\* A and B depend on each other and C depends on A: C is listed with them,
\* and lies on no cycle.
C35_Witness ==
    /\ CircularError
    /\ Declared(steps) = {<<"A", "B">>, <<"B", "A">>, <<"C", "A">>}
    /\ rejection.ids = <<"C", "A", "B">>
    /\ ~OnCycle(steps, "C")

\* C36: a pipeline that has both a dependency on a step that was not supplied
\* and a dependency cycle fails with the missing-dependency error, never with
\* the circular-dependency error.
C36_MissingCheckPrecedesCycles ==
    (Entered /\ HasCycle(steps) /\ ~AllDepsSupplied(steps)) =>
        /\ pc = "rejected"
        /\ rejection.kind = "missing-dependency"
        /\ rejection.kind # "circular-dependency"

C36_Witness ==
    /\ Entered /\ pc = "rejected"
    /\ Declared(steps) = {<<"A", "B">>, <<"B", "A">>, <<"C", MissingId>>}
    /\ rejection.kind = "missing-dependency"
    /\ rejection.dep = MissingId /\ rejection.step = "C"

\* The position in the resolved order of the dependency of s that is dequeued
\* last (0 without dependencies): s enters the queue at that moment.
ReadyAt(ss, order, s) ==
    LET at0 == {IndexOf(order, e[2]) : e \in {e \in Declared(ss) : e[1] = s}}
    IN  IF at0 = {} THEN 0 ELSE CHOOSE m \in at0 : \A n \in at0 : n <= m

\* C37: the resolved order is the order of a first-in first-out queue that
\* starts with the steps without dependencies in supplied order and that a
\* dependent enters when its last dependency is dequeued: the steps appear by
\* the position of their last dependency, steps that become ready together
\* appearing in supplied order; so the steps without dependencies keep their
\* supplied relative order, and the order is a function of the input.
C37_SupplyOrderTieBreak ==
    (Entered /\ ValidDag(steps) /\ orderedSteps # <<>>) =>
        /\ orderedSteps = resolveDependencies(steps).order
        /\ SelectSeq(orderedSteps, LAMBDA s : ReadyAt(steps, orderedSteps, s) = 0)
             = SelectSeq(Ids(steps), LAMBDA s : \A e \in Declared(steps) : e[1] # s)
        /\ \A a, b \in 1..Len(orderedSteps) :
              a < b =>
                LET ra == ReadyAt(steps, orderedSteps, orderedSteps[a])
                    rb == ReadyAt(steps, orderedSteps, orderedSteps[b])
                IN  \/ ra < rb
                    \/ /\ ra = rb
                       /\ IndexOf(Ids(steps), orderedSteps[a])
                            < IndexOf(Ids(steps), orderedSteps[b])

\* C and A are supplied first and have no dependencies, B depends on C: the
\* order is C, A, B, with A (ready from the start) ahead of B although B's
\* only dependency is resolved first.
C37_Witness ==
    /\ Entered /\ pc = "returned"
    /\ Declared(steps) = {<<"B", "C">>}
    /\ Ids(steps) = <<"C", "A", "B">>
    /\ orderedSteps = <<"C", "A", "B">>

\* The positions in the trace where an onError hook threw.
OnErrorThrows ==
    {k \in DOMAIN trace : trace[k].ev = "throw" /\ trace[k].hook = "onError"}

BodyThrowAt == {k \in DOMAIN trace : trace[k].ev = "throw" /\ trace[k].site = "RUN"}

\* C38 (as claimed): if the onError hooks return normally the invocation
\* rejects with the body's error and nothing of a later step runs; if an
\* onError hook throws, the runner does not catch it: nothing more is called
\* and the invocation rejects with that hook's error.
C38_OnErrorObservesOnly ==
    /\ (pc = "rejected" /\ BodyThrowAt # {} /\ OnErrorThrows = {}) =>
          /\ rejection.kind = "thrown" /\ rejection.site = "RUN"
          /\ rejection.n \in BodyThrowAt
          /\ \A k \in BodyThrowAt : \A j \in (k + 1)..Len(trace) :
                trace[j].stepIndex = trace[k].stepIndex
    /\ \A k \in OnErrorThrows :
          /\ \A j \in (k + 1)..Len(trace) : trace[j].ev # "call"
          /\ pc = "rejected" /\ rejection.kind = "thrown" /\ rejection.n = k

\* The runner-level onError hook threw inside executeStep, and the catch of
\* run()/resume() has called an onError hook again after that.
C38_Witness ==
    \E k \in OnErrorThrows :
        /\ trace[k].site = "XRE"
        /\ \E j \in (k + 1)..Len(trace) :
              /\ trace[j].ev = "call" /\ trace[j].site = "CRE"
              /\ trace[j].step = trace[k].step
        /\ trace[k].step \in Range(failedSteps)

\* ------------------------------------------------ claims on damaged log files
\* A file that holds no well-formed step record, the damaged files of the
\* logger's run, and the directory without them.
NotARecord(content) == ~content.json \/ IsNull(content.value)

DamagedFiles(d) == {q \in DOMAIN d : NotARecord(d[q])}

FileDamaged(stepId, d) == buildFilePath(CliLogger, stepId) \in DamagedFiles(d)

Cleaned(d) == Remove(d, DamagedFiles(d))

WithoutFile(stepId, d) == Remove(d, {buildFilePath(CliLogger, stepId)})

\* C39 (as claimed): content that is not a well-formed step record is treated
\* as absent: no operation fails because of it, getRecord answers the
\* default record, a write leaves what it would leave had the file not
\* existed, and getAllRecords and buildResumeState answer as if the damaged
\* files were not there.
C39_MalformedAsAbsent ==
    /\ (lastOp.op = "TypeError") => DamagedFiles(lastOp.before) = {}
    /\ (lastOp.op = "getRecord" /\ FileDamaged(lastOp.stepId, lastOp.before)) =>
          lastOp.value = DefaultRecord(lastOp.stepId, lastOp.now)
    /\ (lastOp.op = "setProgress" /\ FileDamaged(lastOp.stepId, lastOp.before)) =>
          disk = setLogForCurrentStepIndex(CliLogger,
                     WithoutFile(lastOp.stepId, lastOp.before),
                     lastOp.stepId, lastOp.arg, lastOp.now)
    /\ (lastOp.op = "recordFailure" /\ FileDamaged(lastOp.stepId, lastOp.before)) =>
          disk = setLogForCurrentStepFails(CliLogger,
                     WithoutFile(lastOp.stepId, lastOp.before),
                     lastOp.stepId, lastOp.arg, lastOp.now)
    /\ (lastOp.op = "setPayload" /\ FileDamaged(lastOp.stepId, lastOp.before)) =>
          disk = setStepPayload(CliLogger,
                     WithoutFile(lastOp.stepId, lastOp.before),
                     lastOp.stepId, lastOp.arg, lastOp.now)
    /\ (lastOp.op = "getAllRecords") =>
          lastOp.value = getAllLogs(CliLogger, Cleaned(lastOp.before))
    /\ (lastOp.op = "buildResumeState") =>
          lastOp.value = buildRunnerState(CliLogger, Cleaned(lastOp.before),
                                          lastOp.arg)

\* recordFailure on a step whose file holds the JSON text `null` has failed
\* with a TypeError and has written nothing.
C39_Witness ==
    /\ lastOp.op = "TypeError" /\ lastOp.during = "recordFailure"
    /\ buildFilePath(CliLogger, lastOp.stepId) \in DOMAIN lastOp.before
    /\ lastOp.before[buildFilePath(CliLogger, lastOp.stepId)] = NullContent
    /\ disk = lastOp.before

\* ------------------------------------------------ claims on concurrent writers
RaceFile == buildFilePath(CliLogger, RaceStep)

BothDone == \A w \in Writers : writers[w].pcw = "done"

LastWriter == CHOOSE w \in Writers : \A v \in Writers : writers[v].wrote <= writers[w].wrote

\* C40 (as claimed): when two writers of one run have interleaved their
\* recordFailure or setProgress on one step, the stored record is the record
\* of the writer that wrote last, whole; the update of the other can be lost.
C40_LastWriterWins ==
    BothDone =>
        /\ disk[RaceFile].json
        /\ disk[RaceFile].value = writers[LastWriter].record

\* Both writers have opened the file before either wrote; the one with the
\* longer record wrote first, and the shorter record written over it left the
\* file with text that is the record of neither.
C40_Witness ==
    /\ BothDone
    /\ ~disk[RaceFile].json
    /\ disk[RaceFile].value = "torn"
    /\ writers["w1"].op = "recordFailure" /\ writers["w2"].op = "setProgress"

\* Both writers recorded a failure and the stored record holds one of the
\* two failure ids.
C40_LostUpdate ==
    /\ BothDone
    /\ disk[RaceFile].json
    /\ writers["w1"].op = "recordFailure" /\ writers["w2"].op = "recordFailure"
    /\ writers["w1"].arg # writers["w2"].arg
    /\ Len(disk[RaceFile].value.fails) = 1

\* ------------------------------------------------ claims on a restarted loop
RestartAt == {k \in DOMAIN events : events[k][1] = "restart"}

TodoAfter(k, n) ==
    \E j \in (k + 1)..Len(events) : events[j][1] = "todo" /\ events[j][2] = n

DoneAfter(k) == \E j \in (k + 1)..Len(events) : events[j][1] = "done"

\* C31 (as claimed): a loop started again at the index the interrupted loop
\* persisted last never invokes the item callback for an index whose callback
\* had succeeded, and by its completion has invoked it for every index of
\* the loop that had not.
C31_ResumeIdempotent ==
    \A k \in RestartAt :
        /\ \A n \in events[k][3] : ~TodoAfter(k, n)
        /\ DoneAfter(k) =>
              \A n \in (0..ctl.limit) \ events[k][3] : TodoAfter(k, n)

\* loopDelay(2, ...) from index 0: items 0 and 1 succeed, index 1 is
\* persisted, the loop is interrupted and started again at 1.  The new loop
\* invokes item 1 again and completes without invoking item 2.
C31_Witness ==
    \E k \in RestartAt :
        /\ events[k][2] = 1 /\ events[k][3] = {0, 1}
        /\ ctl.limit = 2 /\ ctl.failing = {}
        /\ TodoAfter(k, 1)
        /\ DoneAfter(k)
        /\ ~TodoAfter(k, 2)
        /\ \A j \in 1..k : events[j][1] = "todo" => events[j][2] # 2


====
